---- MODULE Spec2Model ----
(***************************************************************************)
(* Model of the SharePoint / S3 Lambda handlers of LocalStack-Lambda.      *)
(*                                                                         *)
(* A file name is a sequence of characters.  An ASCII character is the     *)
(* one-character string itself; a character outside ASCII is written by    *)
(* its code point ("U+00E9" is e-acute, "U+00C9" is E-acute, "U+1F600" is  *)
(* an emoji for which unidecode has no approximation).                     *)
(***************************************************************************)
EXTENDS Integers, Sequences, FiniteSets, TLC

\* ------------------------------------------------------------------------
\* Bounds of the model
\* ------------------------------------------------------------------------

\* A composed input name is the concatenation of at most MaxParts parts.
MaxParts == 3

\* The mission folder listing holds at most MaxMissions folders.
MaxMissions == 2

\* The video and transcript listings of one run hold at most MaxItems files
\* in total.
MaxItems == 3

\* Object keys of transcriptToJSON are made of at most MaxKeyParts parts.
MaxKeyParts == 3

\* The test runner tests at most MaxLambdas lambdas, one after the other.
MaxLambdas == 3

\* ------------------------------------------------------------------------
\* Characters
\* ------------------------------------------------------------------------

AsciiLower == <<"a", "b", "c", "d", "e", "f", "g", "h", "i", "j", "k", "l", "m",
                "n", "o", "p", "q", "r", "s", "t", "u", "v", "w", "x", "y", "z">>

AsciiUpper == <<"A", "B", "C", "D", "E", "F", "G", "H", "I", "J", "K", "L", "M",
                "N", "O", "P", "Q", "R", "S", "T", "U", "V", "W", "X", "Y", "Z">>

Digits == {"0", "1", "2", "3", "4", "5", "6", "7", "8", "9"}

Range(s) == {s[i] : i \in 1..Len(s)}

\* The function f on 1..n as a sequence value.
AsSeq(f) == SubSeq(f, 1, Len(f))

\* The character class [a-z0-9-] of the collapse pattern.
KeyChar(c) == c \in Range(AsciiLower) \cup Digits \cup {"-"}

\* str.lower() on one character: A-Z and the accented capital of the alphabet.
lower_char(c) ==
    IF c \in Range(AsciiUpper)
    THEN AsciiLower[CHOOSE i \in 1..Len(AsciiUpper) : AsciiUpper[i] = c]
    ELSE IF c = "U+00C9" THEN "U+00E9" ELSE c

\* str.lower()
lower(s) == AsSeq([i \in 1..Len(s) |-> lower_char(s[i])])

\* What the unidecode package returns for one character: ASCII is kept, an
\* accented Latin letter loses its accent, a character without an ASCII
\* approximation becomes the empty string.  (For the characters of this
\* model an approximation is never longer than one character.)
unidecode_char(c) ==
    CASE c = "U+00E9" -> <<"e">>
      [] c = "U+00C9" -> <<"E">>
      [] c = "U+1F600" -> <<>>
      [] OTHER -> <<c>>

HasApproximation(c) == unidecode_char(c) # <<>>

\* The approximations of the characters of s, concatenated.
Transliterate(s) ==
    LET kept == SelectSeq(s, HasApproximation)
    IN  AsSeq([i \in 1..Len(kept) |-> unidecode_char(kept[i])[1]])

\* unidecode(value): the package when its import succeeded, the identity
\* fallback defined by the reconciler module otherwise.
unidecode(s, available) == IF available THEN Transliterate(s) ELSE s

\* ------------------------------------------------------------------------
\* os.path.basename / os.path.splitext (posixpath)
\* ------------------------------------------------------------------------

\* Largest index of character c in s, 0 when absent (str.rfind + 1).
RFind(s, c) ==
    IF \E i \in 1..Len(s) : s[i] = c
    THEN CHOOSE i \in 1..Len(s) : s[i] = c /\ \A j \in (i + 1)..Len(s) : s[j] # c
    ELSE 0

basename(p) == SubSeq(p, RFind(p, "/") + 1, Len(p))

\* splitext of a name without separator: split at the last dot, unless only
\* dots precede it (leading dots belong to the root).
splitext(p) ==
    LET d == RFind(p, ".")
    IN  IF d = 0 \/ \A i \in 1..(d - 1) : p[i] = "."
        THEN <<p, <<>>>>
        ELSE <<SubSeq(p, 1, d - 1), SubSeq(p, d, Len(p))>>

\* ------------------------------------------------------------------------
\* The two regular-expression substitutions and the strip
\* ------------------------------------------------------------------------

\* -\d{8}_\d{6}- matches s at index i.
TsPrefixAt(s, i) ==
    /\ i >= 1
    /\ i + 16 <= Len(s)
    /\ s[i] = "-"
    /\ \A k \in 1..8 : s[i + k] \in Digits
    /\ s[i + 9] = "_"
    /\ \A k \in 10..15 : s[i + k] \in Digits
    /\ s[i + 16] = "-"

\* .*$ matches from index j: "." matches no line feed and "$" matches at the
\* end of the string or just before a final line feed.
RestToEnd(s, j) ==
    \/ \A k \in j..Len(s) : s[k] # "\n"
    \/ /\ Len(s) >= j
       /\ s[Len(s)] = "\n"
       /\ \A k \in j..(Len(s) - 1) : s[k] # "\n"

TsMatchAt(s, i) == TsPrefixAt(s, i) /\ RestToEnd(s, i + 17)

\* A plausible slip of the pattern: any trailing "-suffix" is taken for a
\* timestamp (-[^-]*$).
TsSub_last_hyphen_suffix(s) ==
    LET d == RFind(s, "-")
    IN  IF d = 0 THEN s ELSE SubSeq(s, 1, d - 1)

\* re.sub(r"-\d{8}_\d{6}-.*$", "", s): the leftmost match is removed; it runs
\* to the end of the string (a final line feed stays).
TsSub(s) ==
    IF \E i \in 1..Len(s) : TsMatchAt(s, i)
    THEN LET i == CHOOSE k \in 1..Len(s) :
                      TsMatchAt(s, k) /\ \A m \in 1..(k - 1) : ~TsMatchAt(s, m)
         IN  SubSeq(s, 1, i - 1) \o
             (IF s[Len(s)] = "\n" THEN <<"\n">> ELSE <<>>)
    ELSE s

\* A character of the class stays, the first character of a run outside
\* the class becomes "_", the other characters of the run are dropped.
Kept(c) == c # "dropped"

CollapseRuns(s) ==
    SelectSeq([i \in 1..Len(s) |->
                  IF KeyChar(s[i]) THEN s[i]
                  ELSE IF i = 1 \/ KeyChar(s[i - 1]) THEN "_"
                  ELSE "dropped"],
              Kept)

\* A slip of the pattern that forgets "+": one underscore per character.
Collapse_each_char(s) == AsSeq([i \in 1..Len(s) |-> IF KeyChar(s[i]) THEN s[i] ELSE "_"])

\* A slip of the class that forgets the hyphen: [^a-z0-9]+.
Collapse_hyphen_too(s) ==
    CollapseRuns(AsSeq([i \in 1..Len(s) |-> IF s[i] = "-" THEN "_" ELSE s[i]]))

\* re.sub(r"[^a-z0-9-]+", "_", s): every maximal run of characters outside
\* the class becomes one underscore.
Collapse(s) == CollapseRuns(s)

\* A slip that leaves out .strip("_").
Strip_nothing(s) == s

\* str.strip("_")
Strip(s) ==
    LET keep == {i \in 1..Len(s) : s[i] # "_"}
    IN  IF keep = {} THEN <<>>
        ELSE SubSeq(s, CHOOSE i \in keep : \A j \in keep : i <= j,
                       CHOOSE i \in keep : \A j \in keep : j <= i)


\* ------------------------------------------------------------------------
\* normalize_filename
\* ------------------------------------------------------------------------

\* normalize_filename(filename, extension) as one expression; `available`
\* says which unidecode the calling module has bound.
normalize_filename(fname, with_ext, available) ==
    LET se == splitext(basename(fname))
        n  == Strip(Collapse(TsSub(lower(unidecode(se[1], available)))))
    IN  IF with_ext THEN n \o se[2] ELSE n

\* ------------------------------------------------------------------------
\* Names used as inputs
\* ------------------------------------------------------------------------

CafeIntroMp4 == <<"C", "a", "f", "U+00E9", "-", "I", "n", "t", "r", "o", ".", "m", "p", "4">>
cafe_intro_mp4 == <<"c", "a", "f", "e", "_", "i", "n", "t", "r", "o", ".", "m", "p", "4">>
cafe_hyphen_intro_mp4 == <<"c", "a", "f", "e", "-", "i", "n", "t", "r", "o", ".", "m", "p", "4">>
MeetingTsRawMp4 == <<"m", "e", "e", "t", "i", "n", "g", "-", "2", "0", "2", "4", "0", "1", "1", "5",
                     "_", "0", "9", "3", "0", "0", "0", "-", "r", "a", "w", ".", "m", "p", "4">>
MeetingMp4 == <<"m", "e", "e", "t", "i", "n", "g", ".", "m", "p", "4">>
A_B_MP4 == <<"A", " ", "B", ".", "M", "P", "4">>
Underscores == <<"_", "_", "_">>
IntroTsXMp4 == <<"I", "n", "t", "r", "o", "-", "2", "0", "2", "4", "0", "1", "0", "1",
                 "_", "0", "0", "0", "0", "0", "0", "-", "x", ".", "m", "p", "4">>
IntroVtt == <<"I", "n", "t", "r", "o", ".", "v", "t", "t">>
intro_mp4 == <<"i", "n", "t", "r", "o", ".", "m", "p", "4">>
intro2_mp4 == <<"i", "n", "t", "r", "o", "2", ".", "m", "p", "4">>
Q1ReportV2Mp4 == <<"Q", "1", " ", "R", "e", "p", "o", "r", "t", " ", "(", "v", "2", ")", ".", "m", "p", "4">>

\* A capture timestamp without its closing hyphen: -20240115_093000
TS16 == <<"-", "2", "0", "2", "4", "0", "1", "1", "5", "_", "0", "9", "3", "0", "0", "0">>

\* A name with a line feed after the capture timestamp: "a-20240115_093000-\nb"
TsLineFeed == <<"a">> \o TS16 \o <<"-", "\n", "b">>

\* A name that ends in a dot: "report."
ReportDot == <<"r", "e", "p", "o", "r", "t", ".">>

\* A name whose timestamp-like text holds two underscores:
\* "a-20240115__093000-b"
TsTwoUnderscores ==
    <<"a", "-", "2", "0", "2", "4", "0", "1", "1", "5", "_", "_",
      "0", "9", "3", "0", "0", "0", "-", "b">>

ExampleNames ==
    {CafeIntroMp4, cafe_intro_mp4, cafe_hyphen_intro_mp4, MeetingTsRawMp4, MeetingMp4,
     A_B_MP4, Underscores, IntroTsXMp4, IntroVtt, intro_mp4, intro2_mp4, Q1ReportV2Mp4,
     TsLineFeed, ReportDot, TsTwoUnderscores}

Parts ==
    {<<"a">>, <<"B">>, <<"U+00E9">>, <<"1">>, <<"-">>, <<"_">>, <<".">>, <<"/">>,
     <<"\n">>, <<"U+1F600">>, TS16}

\* The sequences over S of length at most n.
SeqsUpTo(S, n) == UNION {[1..k -> S] : k \in 0..n}

\* The parts of q, concatenated.
Concat(q) ==
    LET end(k) == IF k = 0 THEN 0 ELSE
                  Cardinality({<<a, b>> \in (1..k) \X (1..Len(TS16)) : b <= Len(q[a])})
        total == end(Len(q))
    IN  AsSeq([i \in 1..total |->
                  LET a == CHOOSE x \in 1..Len(q) : end(x - 1) < i /\ i <= end(x)
                  IN  q[a][i - end(a - 1)]])

Composed(n) == {Concat(q) : q \in SeqsUpTo(Parts, n)}

Names == ExampleNames \cup Composed(MaxParts)

\* None where an id or a returned string is expected ("if not video_folder_id"
\* takes None and "" alike).
None == <<>>

\* Optional[List]: what list_sharepoint_files returns.
NoneList == [is_none |-> TRUE, value |-> <<>>]
SomeList(v) == [is_none |-> FALSE, value |-> v]

\* ------------------------------------------------------------------------
\* State
\* ------------------------------------------------------------------------

VARIABLES
    handler_module,       \* the module whose normalize_filename runs
    unidecode_available,  \* FALSE: the reconciler module bound its identity fallback
    filename, extension,  \* arguments of normalize_filename
    name, ext,            \* its locals
    result,               \* its return value
    npc,                  \* its position
    \* handler of sendJSONToOpenSearch (the reconciler)
    hpc,                  \* its position
    mission_folders,      \* ids of the mission folders, in listing order
    processed_files_set,  \* keys of the objects found in S3
    idx,                  \* index of the mission the loop is at
    video_folder_id, transcript_folder_id,  \* locals of the loop body
    video_files, transcript_files,          \* locals of the loop body
    missions_list,        \* the summaries appended so far
    response,             \* the returned envelope
    listed,               \* number of files listed so far in this run
    logged,               \* what handler and get_processed_s3_filenames logged in the last step (warnings, errors)
    \* the SharePoint drive
    drive_names,          \* the item names its listings can hold in this run
    \* handler of sendVideoToS3
    sv_pc,                \* its position
    sv_event,             \* the event it was invoked with
    video_id, transcript_id,        \* locals of handler
    access_token,                   \* local of handler
    video_success, video_name,      \* locals of handler
    transcript_success, transcript_name,
    sv_response,          \* the returned envelope
    http_calls,           \* the requests sent so far, in order: <<request, item id, reply>>
    s3_puts,              \* the put_object calls that succeeded, in order
    s3_objects,           \* the bucket: pairs <<key, body>>
    \* handler of transcriptToJSON
    tj_pc,                \* its position
    tj_event,             \* the event it was invoked with
    config,               \* local of handler: None or the dict of get_config
    json_content,         \* local of handler: what invoke_bedrock_model returned
    caught,               \* the exception the except clause caught, "" if none
    tj_outcome,           \* how the invocation ended: the envelope or the exception raised
    tj_puts,              \* the put_object calls that succeeded, in order
    tj_objects,           \* the bucket: pairs <<key, body>>
    \* handler of the OpenSearch indexing lambda (sendJSONToOpenSearch/build)
    ix_pc,                \* its position
    ix_event,             \* the event it was invoked with
    ix_env,               \* INDEX, OPENSEARCH_URI, OPENSEARCH_USERNAME, OPENSEARCH_PASSWORD
    ix_exception,         \* the exception the except clause caught and the call that raised it
    ix_response,          \* the returned envelope
    ix_requests,          \* the documents sent to OpenSearch, in order
    \* handler of lambdadyna
    dy_pc,                \* its position
    dy_event,             \* the event and the context it was invoked with
    user_id, email, action,   \* locals of handler
    aws_calls,            \* the put_item and publish calls made so far, in order
    dy_response,          \* the returned envelope
    \* test_lambda_with_local_mocks and the MockInjector
    mk_pc,                \* position of test_lambda_with_local_mocks
    mk_lambda,            \* number of the lambda under test
    mk_config,            \* its mock_config.json
    active_patches,       \* injector.active_patches of the injector of this test
    patched,              \* the patchers started and not stopped, over all injectors
    mk_result             \* what the test added to its result

nvars == <<handler_module, unidecode_available, filename, extension, name, ext, result, npc>>

hvars == <<hpc, mission_folders, processed_files_set, idx, video_folder_id,
           transcript_folder_id, video_files, transcript_files, missions_list,
           response, listed, logged>>

evars == <<drive_names>>

svars == <<sv_pc, sv_event, video_id, transcript_id, access_token, video_success,
           video_name, transcript_success, transcript_name, sv_response,
           http_calls, s3_puts, s3_objects>>

tvars == <<tj_pc, tj_event, config, json_content, caught, tj_outcome, tj_puts, tj_objects>>

ixvars == <<ix_pc, ix_event, ix_env, ix_exception, ix_response, ix_requests>>

dyvars == <<dy_pc, dy_event, user_id, email, action, aws_calls, dy_response>>

mkvars == <<mk_pc, mk_lambda, mk_config, active_patches, patched, mk_result>>

\* The state of the other lambdas and of the test runner.
ovars == <<svars, tvars, ixvars, dyvars, mkvars>>

vars == <<nvars, hvars, evars, ovars>>

\* Python's None where an item id, a token or a path parameter is expected.
NoneId == "None"

\* sendVideoToS3 has not been invoked.
SendVideoIdle ==
    /\ sv_pc = "idle"
    /\ sv_event = [pathParameters |-> "absent", videoId |-> NoneId, transcriptId |-> NoneId]
    /\ video_id = NoneId
    /\ transcript_id = NoneId
    /\ access_token = NoneId
    /\ video_success = FALSE
    /\ video_name = <<>>
    /\ transcript_success = FALSE
    /\ transcript_name = <<>>
    /\ sv_response = [statusCode |-> 0, body |-> [error |-> "", message |-> <<>>]]
    /\ http_calls = <<>>
    /\ s3_puts = <<>>
    /\ s3_objects = {}

\* config = None
NoConfig == [is_none |-> TRUE, bucket |-> "", key |-> <<>>, output_key |-> <<>>]

\* No envelope returned and no exception raised yet.
NoOutcome == [statusCode |-> 0, raised |-> ""]

\* transcriptToJSON has not been invoked.
TranscriptIdle ==
    /\ tj_pc = "idle"
    /\ tj_event = [malformed |-> TRUE, key |-> <<>>]
    /\ config = NoConfig
    /\ json_content = ""
    /\ caught = ""
    /\ tj_outcome = NoOutcome
    /\ tj_puts = <<>>
    /\ tj_objects = {}

\* No exception caught.
NoException == [raised_by |-> "", class |-> ""]

\* The indexing lambda has not been invoked.
IndexIdle ==
    /\ ix_pc = "idle"
    /\ ix_event = [malformed |-> TRUE, bucket |-> "", key |-> <<>>]
    /\ ix_env = [unset |-> {}, uri |-> ""]
    /\ ix_exception = NoException
    /\ ix_response = [statusCode |-> 0, document_id |-> <<>>]
    /\ ix_requests = <<>>

\* lambdadyna has not been invoked.
DynaIdle ==
    /\ dy_pc = "idle"
    /\ dy_event = [form |-> "direct", userId |-> NoneId, email |-> NoneId,
                   action |-> NoneId, has_context |-> FALSE]
    /\ user_id = NoneId
    /\ email = NoneId
    /\ action = NoneId
    /\ aws_calls = <<>>
    /\ dy_response = [statusCode |-> 0, error |-> ""]

\* mock_config.json is absent or has "enabled": false.
MocksDisabled == [enabled |-> FALSE, mock_external_apis |-> FALSE, external_api_responses |-> FALSE]

\* The test runner has not run.
MocksIdle ==
    /\ mk_pc = "idle"
    /\ mk_lambda = 0
    /\ mk_config = MocksDisabled
    /\ active_patches = <<>>
    /\ patched = {}
    /\ mk_result = ""

OthersIdle == SendVideoIdle /\ TranscriptIdle /\ IndexIdle /\ DynaIdle /\ MocksIdle

\* The reconciler has not been invoked.
HandlerIdle ==
    /\ hpc = "idle"
    /\ mission_folders = <<>>
    /\ processed_files_set = {}
    /\ idx = 0
    /\ video_folder_id = None
    /\ transcript_folder_id = None
    /\ video_files = NoneList
    /\ transcript_files = <<>>
    /\ missions_list = <<>>
    /\ response = [statusCode |-> 0, body |-> <<>>]
    /\ listed = 0
    /\ logged = <<>>
    /\ drive_names = {}

\* ------------------------------------------------------------------------
\* normalize_filename, line by line
\* ------------------------------------------------------------------------

\* Only the reconciler module guards the import of unidecode; sendVideoToS3
\* imports it unconditionally.
ImportOutcomes ==
    {<<"sendJSONToOpenSearch", TRUE>>, <<"sendJSONToOpenSearch", FALSE>>,
     <<"sendVideoToS3", TRUE>>}

InitNormalize ==
    /\ \E io \in ImportOutcomes :
          /\ handler_module = io[1]
          /\ unidecode_available = io[2]
    /\ filename \in Names
    /\ extension \in BOOLEAN
    /\ name = <<>>
    /\ ext = <<>>
    /\ result = <<>>
    /\ npc = "split"
    /\ HandlerIdle
    /\ OthersIdle

\* name, ext = os.path.splitext(os.path.basename(filename))
NfSplit ==
    /\ npc = "split"
    /\ name' = splitext(basename(filename))[1]
    /\ ext' = splitext(basename(filename))[2]
    /\ npc' = "translit"
    /\ UNCHANGED <<handler_module, unidecode_available, filename, extension, result>>
    /\ UNCHANGED <<hvars, evars, ovars>>

\* name = unidecode(name).lower()
NfTranslit ==
    /\ npc = "translit"
    /\ name' = lower(unidecode(name, unidecode_available))
    /\ npc' = "strip_ts"
    /\ UNCHANGED <<handler_module, unidecode_available, filename, extension, ext, result>>
    /\ UNCHANGED <<hvars, evars, ovars>>

\* name = re.sub(r"-\d{8}_\d{6}-.*$", "", name)
NfStripTs ==
    /\ npc = "strip_ts"
    /\ name' = TsSub(name)
    /\ npc' = "collapse"
    /\ UNCHANGED <<handler_module, unidecode_available, filename, extension, ext, result>>
    /\ UNCHANGED <<hvars, evars, ovars>>

\* name = re.sub(r"[^a-z0-9-]+", "_", name).strip("_")
NfCollapse ==
    /\ npc = "collapse"
    /\ name' = Strip(Collapse(name))
    /\ npc' = "return"
    /\ UNCHANGED <<handler_module, unidecode_available, filename, extension, ext, result>>
    /\ UNCHANGED <<hvars, evars, ovars>>

\* return f"{name}{ext}" if extension else name
NfReturn ==
    /\ npc = "return"
    /\ result' = IF extension THEN name \o ext ELSE name
    /\ npc' = "done"
    /\ UNCHANGED <<handler_module, unidecode_available, filename, extension, name, ext>>
    /\ UNCHANGED <<hvars, evars, ovars>>

NextNormalize == NfSplit \/ NfTranslit \/ NfStripTs \/ NfCollapse \/ NfReturn

SpecNormalize == InitNormalize /\ [][NextNormalize]_vars


\* ------------------------------------------------------------------------
\* Properties of normalize_filename (checked under SpecNormalize)
\* ------------------------------------------------------------------------

\* The call has returned a key (extension was not asked for).
KeyReturned == npc = "done" /\ ~extension

Str_cafe_hyphen_intro == <<"c", "a", "f", "e", "-", "i", "n", "t", "r", "o">>
Str_cafe_intro == <<"c", "a", "f", "e", "_", "i", "n", "t", "r", "o">>

\* C1 as stated: "Cafe'-Intro.mp4" (accent, capitals, hyphen) gets the key of
\* "cafe_intro.mp4"; stated for the modules in which unidecode is importable.
C1_SameKeyAsUnderscoreForm ==
    (KeyReturned /\ filename = CafeIntroMp4 /\ unidecode_available)
        => result = normalize_filename(cafe_intro_mp4, FALSE, unidecode_available)

\* C1 amended: the hyphen is a key character and is kept, so the key of
\* "Cafe'-Intro.mp4" holds a hyphen and is not the key of "cafe_intro.mp4",
\* which is "cafe_intro".  Where unidecode is importable it is "cafe-intro",
\* the key of "cafe-intro.mp4".
C1_HyphenKept ==
    KeyReturned =>
        /\ filename = CafeIntroMp4 =>
              /\ "-" \in Range(result)
              /\ result # normalize_filename(cafe_intro_mp4, FALSE, unidecode_available)
              /\ unidecode_available => result = Str_cafe_hyphen_intro
        /\ filename = cafe_hyphen_intro_mp4 => result = Str_cafe_hyphen_intro
        /\ filename = cafe_intro_mp4 => result = Str_cafe_intro

C1_Witness == KeyReturned /\ filename = CafeIntroMp4 /\ unidecode_available

\* The same name with every accented letter replaced by its plain letter.
Unaccent(s) ==
    AsSeq([i \in 1..Len(s) |-> CASE s[i] = "U+00E9" -> "e"
                                 [] s[i] = "U+00C9" -> "E"
                                 [] OTHER -> s[i]])

\* The same name with every capital replaced by its small letter.
CaseFold(s) == AsSeq([i \in 1..Len(s) |-> lower_char(s[i])])

\* C2: names that differ only in letter case, or only in accents, get the
\* same key, in every module that defines normalize_filename and under
\* either binding of unidecode.
C2_CaseAccentInvariant ==
    KeyReturned =>
        /\ result = normalize_filename(CaseFold(filename), FALSE, unidecode_available)
        /\ result = normalize_filename(Unaccent(filename), FALSE, unidecode_available)

\* e is "" or a dot followed by text without dot or separator.
ExtensionForm(e) ==
    e = <<>> \/ (e[1] = "." /\ \A k \in 2..Len(e) : e[k] \notin {".", "/"})

\* u ends in a hyphen, 8 digits, an underscore and 6 digits.
EndsInOpenTimestamp(u) ==
    /\ Len(u) >= 16
    /\ u[Len(u) - 15] = "-"
    /\ \A k \in 1..8 : u[Len(u) - 15 + k] \in Digits
    /\ u[Len(u) - 6] = "_"
    /\ \A k \in 10..15 : u[Len(u) - 15 + k] \in Digits

\* filename = s \o "-" d8 "_" d6 "-" \o t \o e with the timestamp at index i
\* and e starting after index j.
TsStem(i) == SubSeq(filename, 1, i - 1)
TsTail(i, j) == SubSeq(filename, i + 17, j)
TsExt(j) == SubSeq(filename, j + 1, Len(filename))

TsDecomposition(i, j) ==
    /\ TsPrefixAt(filename, i)
    /\ "/" \notin Range(TsStem(i)) \cup Range(TsTail(i, j))
    /\ ExtensionForm(TsExt(j))

\* C3: for every non-empty stem s, timestamp, tail t without separator and
\* extension e, normalize(s-timestamp-t e) = normalize(s e); e.g.
\* "meeting-20240115_093000-raw.mp4" gets the key of "meeting.mp4".  Stated
\* for the s and e that splitext separates (s e splits into stem s and
\* extension e), with s not itself ending, once transliterated, in a hyphen,
\* 8 digits, an underscore and 6 digits, and for the modules in which
\* unidecode is importable.
C3_TimestampStripped ==
    (KeyReturned /\ unidecode_available) =>
        /\ filename = MeetingTsRawMp4 =>
              result = normalize_filename(MeetingMp4, FALSE, unidecode_available)
        /\ \A i \in 2..Len(filename) : \A j \in (i + 16)..Len(filename) :
              ( /\ TsDecomposition(i, j)
                /\ splitext(TsStem(i) \o TsExt(j)) = <<TsStem(i), TsExt(j)>>
                /\ ~EndsInOpenTimestamp(lower(unidecode(TsStem(i), unidecode_available))) )
              => result = normalize_filename(TsStem(i) \o TsExt(j), FALSE, unidecode_available)

\* C4: a key is made of [a-z0-9-] and single underscores, and neither
\* starts nor ends with an underscore.
C4_KeyShape ==
    KeyReturned =>
        /\ \A k \in 1..Len(result) : KeyChar(result[k]) \/ result[k] = "_"
        /\ \A k \in 1..(Len(result) - 1) : ~(result[k] = "_" /\ result[k + 1] = "_")
        /\ result # <<>> => (result[1] # "_" /\ result[Len(result)] # "_")

\* A name with two adjacent characters outside the class inside its stem.
C4_Witness ==
    /\ KeyReturned
    /\ \E k \in 1..(Len(filename) - 1) : filename[k] = " " /\ filename[k + 1] = "("
    /\ \E k \in 1..Len(result) : result[k] = "_"

\* Every character of s is in [a-z0-9-].
Clean(s) == \A k \in 1..Len(s) : KeyChar(s[k])

\* C5: normalize(normalize(x)) = normalize(x) for every x made of [a-z0-9-].
C5_IdempotentOnClean ==
    (KeyReturned /\ Clean(filename))
        => normalize_filename(result, FALSE, unidecode_available) = result

C5_Witness ==
    KeyReturned /\ Clean(filename) /\ Len(filename) >= 3 /\ "-" \in Range(filename)

\* The basename as given, the index of its final dot and the text after it.
RawBase == SubSeq(filename, RFind(filename, "/") + 1, Len(filename))
RawDot == RFind(RawBase, ".")
RawAfterDot == SubSeq(RawBase, RawDot + 1, Len(RawBase))

NoTrailingDot(s) == s = <<>> \/ s[Len(s)] # "."

\* C6 as stated: with keepExtension the result is the normalized stem, "."
\* and the text after the final dot; no trailing dot when that text is empty
\* or the basename has no dot.  Stated for the modules in which unidecode
\* is importable (sendVideoToS3, which asks for the extension, is one).
C6_StemDotExt ==
    (npc = "done" /\ extension /\ unidecode_available) =>
        IF RawDot = 0 \/ RawAfterDot = <<>>
        THEN NoTrailingDot(result)
        ELSE result = normalize_filename(SubSeq(RawBase, 1, RawDot - 1), FALSE,
                                         unidecode_available)
                      \o <<".">> \o RawAfterDot

\* The stem that normalize_filename works on.
RawStem == splitext(basename(filename))[1]

\* The call has a value for the input at hand (its evaluation does not
\* fail) and that value is what the call returns.
Returns ==
    LET r == normalize_filename(filename, extension, unidecode_available)
    IN  /\ Len(r) >= 0
        /\ npc = "done" => result = r

\* C7 as stated: a value is returned for every input, normalize("") = "",
\* and a stem made only of characters outside [a-z0-9-] gives "" (the last
\* stated for the modules in which unidecode is importable).
C7_OutsideClassGivesEmpty ==
    /\ Returns
    /\ KeyReturned =>
          /\ \A k \in 1..Len(result) : result[k] \in Range(AsciiLower) \cup Digits \cup {"-", "_"}
          /\ filename = <<>> => result = <<>>
          /\ (unidecode_available /\ \A k \in 1..Len(RawStem) : ~KeyChar(RawStem[k]))
                => result = <<>>

\* C7 amended: a value is returned for every input, normalize("") = "", and
\* a stem that, once transliterated and lower-cased, is made only of
\* characters outside [a-z0-9-] (such as "___") gives "".
C7_TotalEmptySafe ==
    /\ Returns
    /\ KeyReturned =>
          /\ \A k \in 1..Len(result) : result[k] \in Range(AsciiLower) \cup Digits \cup {"-", "_"}
          /\ filename = <<>> => result = <<>>
          /\ LET u == lower(unidecode(RawStem, unidecode_available))
             IN  (\A k \in 1..Len(u) : ~KeyChar(u[k])) => result = <<>>

C7_Witness == KeyReturned /\ filename = Underscores /\ result = <<>>


\* ------------------------------------------------------------------------
\* The reconciler: handler of sendJSONToOpenSearch
\*
\* A listed file is a record [id, name]; the display-only fields (webUrl,
\* the mission's name) are passed through by the handler and left out.
\* ------------------------------------------------------------------------

\* The value of item.get("name", "") of an item whose name is null.
NullName == <<"None">>

\* Names the listings of a drive may hold: a video and a transcript of one
\* key next to a name of empty key; two videos of different keys; an item
\* with a null name next to a well-named one.
FileNames == {IntroTsXMp4, IntroVtt, Underscores}
PlainNames == {intro_mp4, intro2_mp4}
NullNameDrive == {intro_mp4, NullName}

\* The drives a run may be served by.
Drives == {FileNames, PlainNames, NullNameDrive}

\* Keys the S3 listing under the JSON prefix may hold: an output document
\* and the folder marker of the prefix.
IntroJsonKey == <<"j", "s", "o", "n", "/", "i", "n", "t", "r", "o", ".", "j", "s", "o", "n">>
FolderMarkerKey == <<"j", "s", "o", "n", "/">>
S3Keys == {IntroJsonKey, FolderMarkerKey}

\* What the paginator may list: nothing, the output document, or the output
\* document and the folder marker.
S3Listings == {{}, {IntroJsonKey}, {IntroJsonKey, FolderMarkerKey}}

\* normalize_filename(n) for the names the listings can hold, evaluated once
\* per name and looked up by Key(n, available).
KeyTable ==
    {<<available, n, normalize_filename(n, FALSE, available)>> :
        available \in BOOLEAN, n \in ((UNION Drives) \ {NullName}) \cup S3Keys}

Key(n, available) == (CHOOSE p \in KeyTable : p[1] = available /\ p[2] = n)[3]

\* Mission folder listings: the missions 1..n, n <= MaxMissions, listed in
\* ascending or in descending order of their ids.
MissionListings ==
    UNION {{AsSeq([i \in 1..n |-> i]), AsSeq([i \in 1..n |-> n + 1 - i])} : n \in 0..MaxMissions}

\* The items of a listing of folder `kind` of mission m with the given names.
Items(m, kind, names) ==
    AsSeq([k \in 1..Len(names) |-> [id |-> <<m, kind, k>>, name |-> names[k]]])

\* get_processed_s3_filenames: the normalized key of every listed object,
\* the empty set when the listing raises ClientError.
get_processed_s3_filenames(client_error, listing, available) ==
    IF client_error THEN {}
    ELSE {Key(k, available) : k \in listing}

\* A slip that keeps the first transcript of a key (dict.setdefault).
transcript_by_name_first_wins(files, key, available) ==
    LET hits == {k \in 1..Len(files) : Key(files[k].name, available) = key}
    IN  IF hits = {} THEN None ELSE files[CHOOSE k \in hits : \A j \in hits : k <= j].id

\* A slip that pairs a video with the last listed transcript whatever its key.
transcript_by_name_any_key(files, key, available) ==
    IF files = <<>> THEN None ELSE files[Len(files)].id

\* The id of transcript_by_name.get(key), None when there is none: the dict
\* comprehension keeps, for each key, the last listed transcript with it.
transcript_by_name(files, key, available) ==
    LET hits == {k \in 1..Len(files) : Key(files[k].name, available) = key}
    IN  IF hits = {} THEN None ELSE files[CHOOSE k \in hits : \A j \in hits : j <= k].id

\* A slip that looks the name as listed up in the set of keys.
VideoRecord_raw_name_lookup(video, mission_id, transcripts, processed, available) ==
    LET video_name_normalized == Key(video.name, available)
        matching_transcript == transcript_by_name(transcripts, video_name_normalized, available)
    IN  [videoId      |-> video.id,
         transcriptId |-> matching_transcript,
         title        |-> video.name,
         processed    |-> video.name \in processed,
         missionId    |-> mission_id]

\* The record appended to mission_videos for one video.
VideoRecord(video, mission_id, transcripts, processed, available) ==
    LET video_name_normalized == Key(video.name, available)
        matching_transcript == transcript_by_name(transcripts, video_name_normalized, available)
    IN  [videoId      |-> video.id,
         transcriptId |-> matching_transcript,
         title        |-> video.name,
         processed    |-> video_name_normalized \in processed,
         missionId    |-> mission_id]

\* A slip that keeps one video per key (the records held in a dict by key).
MissionVideos_one_per_key(videos, mission_id, transcripts, processed, available) ==
    LET firsts == {k \in 1..Len(videos) :
                     \A j \in 1..(k - 1) :
                        Key(videos[j].name, available) # Key(videos[k].name, available)}
        nth(i) == CHOOSE k \in firsts : Cardinality({j \in firsts : j < k}) = i - 1
    IN  AsSeq([i \in 1..Cardinality(firsts) |->
                  VideoRecord(videos[nth(i)], mission_id, transcripts, processed, available)])

\* mission_videos after the loop over video_files.
MissionVideos(videos, mission_id, transcripts, processed, available) ==
    AsSeq([k \in 1..Len(videos) |->
              VideoRecord(videos[k], mission_id, transcripts, processed, available)])

\* A slip that leaves out the filter "if v['processed']".
CountProcessed_every_video(mission_videos) == Len(mission_videos)

\* sum(1 for v in mission_videos if v["processed"])
CountProcessed(mission_videos) == Cardinality({k \in 1..Len(mission_videos) : mission_videos[k].processed})

\* The summary appended to missions_list.
MissionSummary(mission_id, mission_videos) ==
    [missionId      |-> mission_id,
     videos         |-> mission_videos,
     videoCount     |-> Len(mission_videos),
     processedCount |-> CountProcessed(mission_videos)]

\* A slip that leaves out the reset "transcript_files = []".
TranscriptFiles_stale(previous, found, listing) ==
    IF found /\ ~listing.is_none THEN listing.value ELSE previous

\* transcript_files of one iteration: reset to [], then the listing of the
\* transcript folder when there is one and it could be listed.
TranscriptFiles(previous, found, listing) ==
    IF found /\ ~listing.is_none THEN listing.value ELSE <<>>

\* A slip that leaves out the test "if mission_videos".
AppendSummary_even_if_empty(list, mission_id, mission_videos) ==
    Append(list, MissionSummary(mission_id, mission_videos))

\* A slip that puts the summary first: missions_list.insert(0, ...).
AppendSummary_at_front(list, mission_id, mission_videos) ==
    IF mission_videos # <<>> THEN <<MissionSummary(mission_id, mission_videos)>> \o list
    ELSE list

\* "if mission_videos: missions_list.append(...)"
AppendSummary(list, mission_id, mission_videos) ==
    IF mission_videos # <<>> THEN Append(list, MissionSummary(mission_id, mission_videos))
    ELSE list

\* The listings of at most MaxItems names each drive can hold.
DriveListings == [d \in Drives |-> SeqsUpTo(d, MaxItems)]

\* The listings the drive of this run can hold.
ServedListings == DriveListings[drive_names]

\* What list_sharepoint_files may return for a folder `kind` of mission m
\* when at most n files are left to list.
ListingResponses(m, kind, n) ==
    {NoneList} \cup
    {SomeList(Items(m, kind, names)) : names \in {q \in ServedListings : Len(q) <= n}}

\* normalize_filename(item.get("name", "")) raises TypeError for an item of
\* the listing: os.path.basename(None).
RaisesTypeError(files) == \E k \in 1..Len(files) : files[k].name = NullName

\* A run of the handler in a module that imported unidecode (the names of
\* the drives hold no accent: the fallback gives them the same keys).
InitReconcile ==
    /\ handler_module = "sendJSONToOpenSearch"
    /\ unidecode_available = TRUE
    /\ filename = <<>>
    /\ extension = FALSE
    /\ name = <<>>
    /\ ext = <<>>
    /\ result = <<>>
    /\ npc = "idle"
    /\ hpc = "start"
    /\ mission_folders = <<>>
    /\ processed_files_set = {}
    /\ idx = 0
    /\ video_folder_id = None
    /\ transcript_folder_id = None
    /\ video_files = NoneList
    /\ transcript_files = <<>>
    /\ missions_list = <<>>
    /\ response = [statusCode |-> 0, body |-> <<>>]
    /\ listed = 0
    /\ logged = <<>>
    /\ drive_names \in Drives
    /\ OthersIdle

\* access_token = get_access_token(); 500 when there is none.
HGetToken ==
    /\ hpc = "start"
    /\ \E ok \in BOOLEAN :
          IF ok
          THEN hpc' = "missions" /\ UNCHANGED response
          ELSE /\ hpc' = "returned"
               /\ response' = [statusCode |-> 500, body |-> "Could not obtain access token"]
    /\ logged' = <<>>
    /\ UNCHANGED <<mission_folders, processed_files_set, idx, video_folder_id,
                   transcript_folder_id, video_files, transcript_files, missions_list, listed>>
    /\ UNCHANGED <<nvars, evars, ovars>>

\* mission_folders = get_mission_folders(access_token); 500 when it is None.
HGetMissionFolders ==
    /\ hpc = "missions"
    /\ \E failed \in BOOLEAN, listing \in MissionListings :
          IF failed
          THEN /\ listing = <<>>
               /\ hpc' = "returned"
               /\ response' = [statusCode |-> 500,
                               body |-> "Failed to retrieve mission folders from SharePoint"]
               /\ UNCHANGED mission_folders
          ELSE /\ hpc' = "s3"
               /\ mission_folders' = listing
               /\ UNCHANGED response
    /\ logged' = <<>>
    /\ UNCHANGED <<processed_files_set, idx, video_folder_id, transcript_folder_id,
                   video_files, transcript_files, missions_list, listed>>
    /\ UNCHANGED <<nvars, evars, ovars>>

\* processed_files_set = get_processed_s3_filenames(); missions_list = []
HGetProcessed ==
    /\ hpc = "s3"
    /\ \E client_error \in BOOLEAN, listing \in S3Listings :
          /\ client_error => listing = {}
          /\ processed_files_set' =
                get_processed_s3_filenames(client_error, listing, unidecode_available)
          /\ logged' = IF client_error THEN <<"Error listing S3 files">> ELSE <<>>
    /\ missions_list' = <<>>
    /\ idx' = 1
    /\ hpc' = "loop"
    /\ UNCHANGED <<mission_folders, video_folder_id, transcript_folder_id, video_files,
                   transcript_files, response, listed>>
    /\ UNCHANGED <<nvars, evars, ovars>>

\* The warnings of an iteration that has listed its videos.
NoTranscriptFolderWarning(tfound) ==
    IF tfound THEN <<>> ELSE <<"No 'transcript' folder found">>

TranscriptListingWarning(tfound, tresp) ==
    IF tfound /\ tresp.is_none THEN <<"Failed to retrieve transcript files">> ELSE <<>>

\* The rest of an iteration once the video folder is listed: the transcript
\* folder is listed when it was found, the videos are paired and the summary
\* is appended; a null name ends the handler with a TypeError.
HMissionVideosListed(mission_id, tfound, vresp, tresp) ==
    /\ listed' = listed + Len(vresp.value) + Len(tresp.value)
    /\ video_files' = vresp
    /\ transcript_files' = TranscriptFiles(transcript_files, tfound, tresp)
    /\ logged' = NoTranscriptFolderWarning(tfound) \o TranscriptListingWarning(tfound, tresp)
    /\ IF RaisesTypeError(transcript_files') \/ RaisesTypeError(vresp.value)
       THEN /\ hpc' = "raised"
            /\ UNCHANGED <<missions_list, idx>>
       ELSE /\ missions_list' =
                  AppendSummary(missions_list, mission_id,
                                MissionVideos(vresp.value, mission_id, transcript_files',
                                              processed_files_set, unidecode_available))
            /\ idx' = idx + 1
            /\ UNCHANGED hpc

\* One iteration of "for mission_folder in mission_folders".  vfound/tfound:
\* get_subfolder_by_name found the folder; vresp/tresp: what
\* list_sharepoint_files returns for that folder.
HMission ==
    /\ hpc = "loop"
    /\ idx <= Len(mission_folders)
    /\ LET mission_id == mission_folders[idx] IN
       \E vfound, tfound \in BOOLEAN :
          /\ video_folder_id' = IF vfound THEN <<mission_id, "video">> ELSE None
          /\ transcript_folder_id' = IF tfound THEN <<mission_id, "transcript">> ELSE None
          /\ IF ~vfound
             THEN \* no 'video' folder: continue
                  /\ logged' = <<"No 'video' folder found">>
                  /\ idx' = idx + 1
                  /\ UNCHANGED <<hpc, video_files, transcript_files, missions_list, listed>>
             ELSE \E vresp \in ListingResponses(mission_id, "video", MaxItems - listed) :
                  IF vresp.is_none
                  THEN \* the video listing failed: continue
                       /\ video_files' = vresp
                       /\ logged' = NoTranscriptFolderWarning(tfound)
                                        \o <<"Failed to retrieve video files">>
                       /\ idx' = idx + 1
                       /\ UNCHANGED <<hpc, transcript_files, missions_list, listed>>
                  ELSE IF ~tfound
                  THEN HMissionVideosListed(mission_id, tfound, vresp, NoneList)
                  ELSE \E tresp \in ListingResponses(mission_id, "transcript",
                                                     MaxItems - listed - Len(vresp.value)) :
                          HMissionVideosListed(mission_id, tfound, vresp, tresp)
    /\ UNCHANGED <<mission_folders, processed_files_set, response>>
    /\ UNCHANGED <<nvars, evars, ovars>>

\* return {"statusCode": 200, ..., "body": json.dumps(missions_list)}
HReturn ==
    /\ hpc = "loop"
    /\ idx > Len(mission_folders)
    /\ hpc' = "returned"
    /\ response' = [statusCode |-> 200, body |-> missions_list]
    /\ logged' = <<>>
    /\ UNCHANGED <<mission_folders, processed_files_set, idx, video_folder_id,
                   transcript_folder_id, video_files, transcript_files, missions_list, listed>>
    /\ UNCHANGED <<nvars, evars, ovars>>

NextReconcile == HGetToken \/ HGetMissionFolders \/ HGetProcessed \/ HMission \/ HReturn

SpecReconcile == InitReconcile /\ [][NextReconcile]_vars

\* ------------------------------------------------------------------------
\* Properties of the reconciler (checked under SpecReconcile)
\* ------------------------------------------------------------------------

\* A step that runs one iteration of the loop over the mission folders.
MissionStep == hpc = "loop" /\ idx <= Len(mission_folders) /\ idx' = idx + 1

\* The mission of that iteration, and what the iteration saw of it.
StepMission == mission_folders[idx]
NoVideoFolder == video_folder_id' = None
VideosListed == video_folder_id' # None /\ ~video_files'.is_none
NoTranscriptFolder == transcript_folder_id' = None

\* The iteration appended a summary; the summary it appended.
Emitted == Len(missions_list') = Len(missions_list) + 1
LastSummary == missions_list'[Len(missions_list')]

\* C8: a mission without video subfolder, or with an empty video listing,
\* adds no entry to the output list, whatever its transcript folder holds;
\* every summary of the list, and of the returned body, has videoCount >= 1.
C8_MissionDropRule ==
    [][ /\ (MissionStep /\ (NoVideoFolder \/ (VideosListed /\ video_files'.value = <<>>)))
            => /\ missions_list' = missions_list
               /\ \A k \in 1..Len(missions_list') :
                     missions_list'[k].missionId # StepMission
        /\ \A k \in 1..Len(missions_list') :
              /\ missions_list'[k].videoCount >= 1
              /\ missions_list'[k].videoCount = Len(missions_list'[k].videos)
        /\ response'.statusCode = 200 =>
              \A k \in 1..Len(response'.body) : response'.body[k].videoCount >= 1
      ]_vars

\* A mission with an empty video listing and a transcript in its transcript
\* folder has been skipped after another mission was emitted.
C8_Witness ==
    /\ hpc = "loop"
    /\ idx = 3
    /\ video_folder_id # None
    /\ video_files = SomeList(<<>>)
    /\ transcript_folder_id # None
    /\ transcript_files # <<>>
    /\ Len(missions_list) = 1
    /\ missions_list[1].missionId = mission_folders[1]

\* C9: a mission with a non-empty video listing and no transcript subfolder
\* is emitted with all of its videos, each with transcriptId null, and the
\* loop goes on to the next mission.
C9_NoTranscriptFolderStillEmitted ==
    [][ (MissionStep /\ VideosListed /\ video_files'.value # <<>> /\ NoTranscriptFolder)
           => /\ Emitted
              /\ LastSummary.missionId = StepMission
              /\ Len(LastSummary.videos) = Len(video_files'.value)
              /\ \A k \in 1..Len(LastSummary.videos) :
                    /\ LastSummary.videos[k].videoId = video_files'.value[k].id
                    /\ LastSummary.videos[k].transcriptId = None
              /\ hpc' = "loop"
              /\ response' = response
      ]_vars

\* The second of two missions has videos and no transcript folder, after a
\* first mission with a transcript; both are in the list.
C9_Witness ==
    /\ hpc = "loop"
    /\ idx = 3
    /\ video_folder_id # None
    /\ transcript_folder_id = None
    /\ Len(missions_list) = 2
    /\ missions_list[1].videos[1].transcriptId # None
    /\ missions_list[2].videoCount = Len(video_files.value)
    /\ missions_list[2].videos[1].transcriptId = None

\* C10: in an emitted mission, a video's transcriptId is the id of a
\* transcript listed in that mission whose key equals the video's key, and
\* null when the mission lists no such transcript; it is never the id of a
\* transcript of another mission.
C10_TranscriptPairing ==
    [][ (MissionStep /\ Emitted) =>
           /\ \A j \in 1..Len(transcript_files') :
                 transcript_files'[j].id[1] = StepMission
           /\ \A k \in 1..Len(LastSummary.videos) :
                 LET record == LastSummary.videos[k]
                     key == Key(video_files'.value[k].name, unidecode_available)
                     same_key == {j \in 1..Len(transcript_files') :
                                    Key(transcript_files'[j].name, unidecode_available) = key}
                 IN  /\ record.videoId = video_files'.value[k].id
                     /\ same_key = {} => record.transcriptId = None
                     /\ same_key # {} =>
                           /\ record.transcriptId \in {transcript_files'[j].id : j \in same_key}
                           /\ record.transcriptId[1] = StepMission
      ]_vars

\* "Intro-20240101_000000-x.mp4" is paired with "Intro.vtt" of its mission,
\* and a video next to it with another key is paired with nothing.
C10_Witness ==
    /\ hpc = "loop"
    /\ missions_list # <<>>
    /\ LET s == missions_list[Len(missions_list)] IN
          /\ s.videoCount = 2
          /\ s.videos[1].title = IntroTsXMp4
          /\ s.videos[1].transcriptId # None
          /\ s.videos[2].transcriptId = None
          /\ \E j \in 1..Len(transcript_files) :
                /\ transcript_files[j].id = s.videos[1].transcriptId
                /\ transcript_files[j].name = IntroVtt

Str_intro == <<"i", "n", "t", "r", "o">>

\* C11: every video record of every emitted mission has processed true
\* exactly when the key of the video's name is in the set of keys built from
\* the storage listing; with the set {"intro"}, "intro.mp4" is processed and
\* "intro2.mp4" is not.
C11_ProcessedFlag ==
    \A i \in 1..Len(missions_list) : \A k \in 1..Len(missions_list[i].videos) :
        LET record == missions_list[i].videos[k]
        IN  /\ record.processed <=>
                  Key(record.title, unidecode_available) \in processed_files_set
            /\ (processed_files_set = {Str_intro} /\ record.title = intro_mp4)
                  => record.processed
            /\ (processed_files_set = {Str_intro} /\ record.title = intro2_mp4)
                  => ~record.processed

\* With the set {"intro"}, a mission with the videos "intro.mp4" and
\* "intro2.mp4" has been emitted.
C11_Witness ==
    /\ processed_files_set = {Str_intro}
    /\ \E i \in 1..Len(missions_list) :
          /\ missions_list[i].videoCount = 2
          /\ missions_list[i].videos[1].title = intro_mp4
          /\ missions_list[i].videos[1].processed
          /\ missions_list[i].videos[2].title = intro2_mp4
          /\ ~missions_list[i].videos[2].processed

\* The summaries the handler has appended and, once it has returned them,
\* those of the body.
Summaries ==
    Range(missions_list) \cup
    (IF response.statusCode = 200 THEN Range(response.body) ELSE {})

\* C12: in every emitted summary videoCount is the length of videos and
\* processedCount the number of its records with processed true, so that
\* 0 <= processedCount <= videoCount.
C12_Counts ==
    \A summary \in Summaries :
        /\ summary.videoCount = Len(summary.videos)
        /\ summary.processedCount =
              Cardinality({k \in 1..Len(summary.videos) : summary.videos[k].processed})
        /\ 0 <= summary.processedCount
        /\ summary.processedCount <= summary.videoCount

\* A returned summary of two videos of which one is processed.
C12_Witness ==
    /\ response.statusCode = 200
    /\ \E summary \in Range(response.body) :
          /\ summary.videoCount = 2
          /\ summary.processedCount = 1
          /\ summary.videos[1].processed # summary.videos[2].processed

\* The position of mission m in the listing of the mission folders.
ListingPosition(m) == CHOOSE p \in 1..Len(mission_folders) : mission_folders[p] = m

\* The summaries of list are in the order of the mission folder listing, and
\* the k-th record of each is the k-th item of that mission's video listing.
InListingOrder(list) ==
    /\ \A i, j \in 1..Len(list) :
          i < j => ListingPosition(list[i].missionId) < ListingPosition(list[j].missionId)
    /\ \A i \in 1..Len(list) : \A k \in 1..Len(list[i].videos) :
          list[i].videos[k].videoId = <<list[i].missionId, "video", k>>

\* C13: the output keeps listing order: the emitted missions are in the
\* relative order of the mission folder listing and the videos of each are
\* in the order of its video listing; so is the returned body.
C13_ListingOrderKept ==
    /\ InListingOrder(missions_list)
    /\ response.statusCode = 200 => response.body = missions_list
    /\ (hpc = "loop" /\ video_folder_id # None /\ ~video_files.is_none /\ missions_list # <<>>
          /\ missions_list[Len(missions_list)].missionId = video_folder_id[1])
         => \A k \in 1..Len(video_files.value) :
               missions_list[Len(missions_list)].videos[k].title = video_files.value[k].name

\* Missions [2, 1] with the videos ["intro2.mp4", "intro.mp4"] in the first
\* are returned as [2, 1] and ["intro2.mp4", "intro.mp4"].
C13_Witness ==
    /\ mission_folders = <<2, 1>>
    /\ response.statusCode = 200
    /\ Len(response.body) = 2
    /\ response.body[1].missionId = 2
    /\ response.body[2].missionId = 1
    /\ Len(response.body[1].videos) = 2
    /\ response.body[1].videos[1].title = intro2_mp4
    /\ response.body[1].videos[2].title = intro_mp4

\* C14: when the listing of the storage fails, the handler stops there and
\* returns one error; it does not go on to build summaries.
C14_StorageFailureAborts ==
    [][ (hpc = "s3" /\ logged' = <<"Error listing S3 files">>)
           => (hpc' = "returned" /\ response'.statusCode = 500) ]_vars

\* C15: an iteration whose video listing or transcript listing failed adds
\* no summary for its mission, and the loop goes on to the next mission with
\* the summaries of the others untouched.  Stated for the listings whose
\* items all have a name.
C15_FailedListingSkipsMission ==
    [][ (hpc = "loop" /\ idx <= Len(mission_folders)
           /\ ~RaisesTypeError(video_files'.value)
           /\ Range(logged') \cap {"Failed to retrieve video files",
                                    "Failed to retrieve transcript files"} # {})
           => /\ missions_list' = missions_list
              /\ hpc' = "loop"
              /\ idx' = idx + 1 ]_vars

\* C16: a video whose name has the empty key is paired with no transcript
\* and is not reported processed, whatever the transcripts and the storage
\* keys normalize to.
C16_EmptyKeyUnmatchable ==
    \A summary \in Summaries : \A k \in 1..Len(summary.videos) :
        normalize_filename(summary.videos[k].title, FALSE, unidecode_available) = <<>>
            => /\ summary.videos[k].transcriptId = None
               /\ ~summary.videos[k].processed

\* The last iteration appended the last summary: video_files and
\* transcript_files are the listings that summary was built from.
JustEmitted ==
    /\ missions_list # <<>>
    /\ video_folder_id # None
    /\ ~video_files.is_none
    /\ missions_list[Len(missions_list)].missionId = video_folder_id[1]

JustEmittedVideos == missions_list[Len(missions_list)].videos

\* The positions in transcript_files of the transcripts with the key of the
\* k-th video.
SameKeyTranscripts(k) ==
    {j \in 1..Len(transcript_files) :
        Key(transcript_files[j].name, unidecode_available)
            = Key(video_files.value[k].name, unidecode_available)}

\* C17: when several transcripts of a mission have the key of a video, the
\* video is paired with the one listed last, whatever the length of the
\* listing and the positions of these transcripts.
C17_LastTranscriptWins ==
    JustEmitted =>
        \A k \in 1..Len(JustEmittedVideos) : \A j \in SameKeyTranscripts(k) :
            (\A later \in SameKeyTranscripts(k) : later <= j)
                => JustEmittedVideos[k].transcriptId = transcript_files[j].id

\* "Intro.vtt" and then "Intro-20240101_000000-x.mp4" are listed as
\* transcripts of a mission with a video of that key: the video is paired
\* with the second.
C17_Witness ==
    /\ JustEmitted
    /\ Len(transcript_files) = 2
    /\ transcript_files[1].name = IntroVtt
    /\ transcript_files[2].name = IntroTsXMp4
    /\ SameKeyTranscripts(1) = {1, 2}
    /\ JustEmittedVideos[1].transcriptId = transcript_files[2].id

\* C18: no video is dropped.  A mission whose videos were listed, at least
\* one, has its summary, and each item of the listing is in the videos of
\* that summary exactly once, at its place, whatever its key.
C18_NoVideoDropped ==
    /\ (hpc \in {"loop", "returned"} /\ video_folder_id # None /\ ~video_files.is_none
          /\ video_files.value # <<>>) => JustEmitted
    /\ JustEmitted =>
          /\ Len(JustEmittedVideos) = Len(video_files.value)
          /\ \A k \in 1..Len(video_files.value) :
                /\ JustEmittedVideos[k].videoId = video_files.value[k].id
                /\ JustEmittedVideos[k].title = video_files.value[k].name
                /\ Cardinality({j \in 1..Len(JustEmittedVideos) :
                                  JustEmittedVideos[j].videoId = video_files.value[k].id}) = 1

\* A mission with a video of empty key and two videos of one key has been
\* emitted with its three videos.
C18_Witness ==
    /\ JustEmitted
    /\ Len(JustEmittedVideos) = 3
    /\ JustEmittedVideos[1].title = Underscores
    /\ JustEmittedVideos[2].title = IntroTsXMp4
    /\ JustEmittedVideos[3].title = IntroTsXMp4

\* The storage key k carries the output suffix ".json".
HasJsonSuffix(k) ==
    Len(k) >= 5 /\ SubSeq(k, Len(k) - 4, Len(k)) = <<".", "j", "s", "o", "n">>

\* C19: every key of the processed set is the key of a storage object with
\* the suffix ".json"; the folder marker of the prefix contributes none.
C19_OnlyJsonObjects ==
    hpc \in {"loop", "returned"} =>
        processed_files_set \subseteq
            {Key(k, unidecode_available) : k \in {o \in S3Keys : HasJsonSuffix(o)}}

\* C20: a video or transcript item whose name is null never makes the
\* handler fail as a whole: the handler stays in its loop over the missions
\* or returns its response, it never ends with an unhandled exception.
C20_StructuralErrorFailsClosed ==
    hpc # "raised"

\* ------------------------------------------------------------------------
\* normalize_filename applied to its own result
\* ------------------------------------------------------------------------

\* C24: normalize(normalize(x)) = normalize(x) for every name x: every key
\* the normalizer returns is a fixed point of the normalizer.  Stated for the
\* modules in which unidecode is importable and for names without line feed.
C24_IdempotentEverywhere ==
    (KeyReturned /\ unidecode_available /\ "\n" \notin Range(filename))
        => normalize_filename(result, FALSE, unidecode_available) = result

\* ------------------------------------------------------------------------
\* sendVideoToS3: handler, get_access_token, process_sharepoint_file
\* ------------------------------------------------------------------------

\* PREFIX_VIDEOS_FOLDER and PREFIX_JSON_FOLDER as the deployment sets them:
\* "videos" and "transcripts".
S3_FOLDER_PREFIX_VIDEOS == <<"v", "i", "d", "e", "o", "s">>
S3_FOLDER_PREFIX_JSON == <<"t", "r", "a", "n", "s", "c", "r", "i", "p", "t", "s">>

\* "sample-video.mp4" and "sample-transcript.vtt"
SampleVideoMp4 ==
    <<"s", "a", "m", "p", "l", "e", "-", "v", "i", "d", "e", "o", ".", "m", "p", "4">>
SampleTranscriptVtt ==
    <<"s", "a", "m", "p", "l", "e", "-", "t", "r", "a", "n", "s", "c", "r", "i", "p", "t",
      ".", "v", "t", "t">>

\* "videos/sample-video.mp4"
VideosSampleVideoMp4 == S3_FOLDER_PREFIX_VIDEOS \o <<"/">> \o SampleVideoMp4

\* The values a path parameter can have: absent or null (None), empty, an id.
PathParamValues == {NoneId, "", "video-123", "transcript-456"}

\* The events: no pathParameters key, "pathParameters": null, or an object
\* with any of the two parameters.
Events ==
    {[pathParameters |-> "absent", videoId |-> NoneId, transcriptId |-> NoneId],
     [pathParameters |-> "null", videoId |-> NoneId, transcriptId |-> NoneId]}
    \cup [pathParameters : {"object"}, videoId : PathParamValues,
          transcriptId : PathParamValues]

\* not x, for an id or a token
Falsy(x) == x = NoneId \/ x = ""

\* What the token endpoint does: the request fails, the reply holds no
\* access_token, or it holds one.
TokenReplies == {"RequestException", "no access_token", "token"}

\* get_access_token() that takes every reply for a token.
get_access_token_any_reply(reply) == "token"

\* get_access_token(): None on RequestException, else the field of the reply.
get_access_token(reply) == IF reply = "token" THEN "token" ELSE NoneId

\* The "name" of an item's details: None or a file name.
DetailNames == {<<>>, SampleVideoMp4, SampleTranscriptVtt, CafeIntroMp4}

\* What Graph answers to the details request of an item: the request fails,
\* or details with or without download URL and with or without name.
DetailReplies ==
    {[failed |-> TRUE, has_url |-> FALSE, name |-> <<>>]}
    \cup [failed : {FALSE}, has_url : BOOLEAN, name : DetailNames]

\* What the download URL answers: the request fails, or the content.
Contents == {"fake-video-content", "fake-transcript-content"}
DownloadReplies == {"RequestException"} \cup Contents

\* What put_object does: it succeeds or raises ClientError/NoCredentialsError.
PutReplies == {"ok", "ClientError"}

\* An s3_key made of the file name as SharePoint gives it.
s3_key_raw_name(s3_prefix, original_filename) == s3_prefix \o <<"/">> \o original_filename

\* s3_key = f"{s3_prefix}/{normalize_filename(original_filename, extension=True)}"
s3_key(s3_prefix, original_filename) ==
    s3_prefix \o <<"/">> \o normalize_filename(original_filename, TRUE, TRUE)

\* put_object: the object replaces the one stored under the key, if any.
put_object(bucket, key, body) ==
    {o \in bucket : o[1] # key} \cup {<<key, body>>}

\* process_sharepoint_file(access_token, item_id, s3_prefix): the requests it
\* sends, the object it puts if any, and the pair it returns.
process_sharepoint_file(item_id, s3_prefix, details, download, put) ==
    LET details_call == <<"GET details", item_id, details>>
        download_call == <<"GET download", item_id, download>>
    IN  IF details.failed
        THEN [calls |-> <<details_call>>, puts |-> <<>>, success |-> FALSE, name |-> <<>>]
        ELSE IF ~details.has_url \/ details.name = None
        THEN [calls |-> <<details_call>>, puts |-> <<>>, success |-> FALSE, name |-> <<>>]
        ELSE IF download = "RequestException"
        THEN [calls |-> <<details_call, download_call>>, puts |-> <<>>,
              success |-> FALSE, name |-> <<>>]
        ELSE IF put = "ClientError"
        THEN [calls |-> <<details_call, download_call>>, puts |-> <<>>,
              success |-> FALSE, name |-> <<>>]
        ELSE [calls |-> <<details_call, download_call>>,
              puts |-> <<<<s3_key(s3_prefix, details.name), download>>>>,
              success |-> TRUE, name |-> details.name]

\* The bucket after the puts of one call.
Stored(bucket, puts) ==
    IF puts = <<>> THEN bucket ELSE put_object(bucket, puts[1][1], puts[1][2])

NormalizerIdle ==
    /\ handler_module = "sendVideoToS3"
    /\ unidecode_available = TRUE
    /\ filename = <<>>
    /\ extension = FALSE
    /\ name = <<>>
    /\ ext = <<>>
    /\ result = <<>>
    /\ npc = "idle"

InitSendVideo ==
    /\ NormalizerIdle
    /\ HandlerIdle
    /\ sv_pc = "start"
    /\ sv_event \in Events
    /\ video_id = NoneId
    /\ transcript_id = NoneId
    /\ access_token = NoneId
    /\ video_success = FALSE
    /\ video_name = <<>>
    /\ transcript_success = FALSE
    /\ transcript_name = <<>>
    /\ sv_response = [statusCode |-> 0, body |-> [error |-> "", message |-> <<>>]]
    /\ http_calls = <<>>
    /\ s3_puts = <<>>
    /\ s3_objects = {}
    /\ TranscriptIdle
    /\ IndexIdle
    /\ DynaIdle
    /\ MocksIdle

\* path_params = event.get("pathParameters", {}); the two .get calls; 400
\* when an id is missing.  "pathParameters": null makes path_params None and
\* path_params.get raises AttributeError.
SvValidate ==
    /\ sv_pc = "start"
    /\ IF sv_event.pathParameters = "null"
       THEN /\ sv_pc' = "raised"
            /\ UNCHANGED <<video_id, transcript_id, sv_response>>
       ELSE /\ video_id' = sv_event.videoId
            /\ transcript_id' = sv_event.transcriptId
            /\ IF Falsy(video_id') \/ Falsy(transcript_id')
               THEN /\ sv_pc' = "returned"
                    /\ sv_response' = [statusCode |-> 400,
                                       body |-> [error |-> "Missing videoId or transcriptId.",
                                                 message |-> <<>>]]
               ELSE /\ sv_pc' = "token"
                    /\ UNCHANGED sv_response
    /\ UNCHANGED <<sv_event, access_token, video_success, video_name, transcript_success,
                   transcript_name, http_calls, s3_puts, s3_objects>>
    /\ UNCHANGED <<nvars, hvars, evars, tvars, ixvars, dyvars, mkvars>>

\* access_token = get_access_token(); 500 when there is none.
SvGetToken ==
    /\ sv_pc = "token"
    /\ \E reply \in TokenReplies :
          /\ access_token' = get_access_token(reply)
          /\ http_calls' = Append(http_calls, <<"POST token", "", reply>>)
          /\ IF Falsy(access_token')
             THEN /\ sv_pc' = "returned"
                  /\ sv_response' = [statusCode |-> 500,
                                     body |-> [error |-> "Failed to obtain access token",
                                               message |-> <<>>]]
             ELSE /\ sv_pc' = "video"
                  /\ UNCHANGED sv_response
    /\ UNCHANGED <<sv_event, video_id, transcript_id, video_success, video_name,
                   transcript_success, transcript_name, s3_puts, s3_objects>>
    /\ UNCHANGED <<nvars, hvars, evars, tvars, ixvars, dyvars, mkvars>>

\* video_success, video_name = process_sharepoint_file(access_token, video_id,
\*                                                     S3_FOLDER_PREFIX_VIDEOS)
SvProcessVideo ==
    /\ sv_pc = "video"
    /\ \E details \in DetailReplies, download \in DownloadReplies, put \in PutReplies :
          LET r == process_sharepoint_file(video_id, S3_FOLDER_PREFIX_VIDEOS,
                                           details, download, put)
          IN  /\ video_success' = r.success
              /\ video_name' = r.name
              /\ http_calls' = http_calls \o r.calls
              /\ s3_puts' = s3_puts \o r.puts
              /\ s3_objects' = Stored(s3_objects, r.puts)
    /\ sv_pc' = "transcript"
    /\ UNCHANGED <<sv_event, video_id, transcript_id, access_token, transcript_success,
                   transcript_name, sv_response>>
    /\ UNCHANGED <<nvars, hvars, evars, tvars, ixvars, dyvars, mkvars>>

\* transcript_success, transcript_name = process_sharepoint_file(access_token,
\*                                           transcript_id, S3_FOLDER_PREFIX_JSON)
SvProcessTranscript ==
    /\ sv_pc = "transcript"
    /\ \E details \in DetailReplies, download \in DownloadReplies, put \in PutReplies :
          LET r == process_sharepoint_file(transcript_id, S3_FOLDER_PREFIX_JSON,
                                           details, download, put)
          IN  /\ transcript_success' = r.success
              /\ transcript_name' = r.name
              /\ http_calls' = http_calls \o r.calls
              /\ s3_puts' = s3_puts \o r.puts
              /\ s3_objects' = Stored(s3_objects, r.puts)
    /\ sv_pc' = "respond"
    /\ UNCHANGED <<sv_event, video_id, transcript_id, access_token, video_success,
                   video_name, sv_response>>
    /\ UNCHANGED <<nvars, hvars, evars, tvars, ixvars, dyvars, mkvars>>

\* message = f"Successfully processed '{video_name}' and '{transcript_name}'"
SuccessMessage(vname, tname) ==
    <<"Successfully processed '", vname, "' and '", tname, "'">>

\* if video_success and transcript_success: 200, else 500
SvReturn ==
    /\ sv_pc = "respond"
    /\ sv_pc' = "returned"
    /\ sv_response' =
          IF video_success /\ transcript_success
          THEN [statusCode |-> 200,
                body |-> [error |-> "",
                          message |-> SuccessMessage(video_name, transcript_name)]]
          ELSE [statusCode |-> 500,
                body |-> [error |-> "One or more files failed to process.",
                          message |-> <<>>]]
    /\ UNCHANGED <<sv_event, video_id, transcript_id, access_token, video_success,
                   video_name, transcript_success, transcript_name, http_calls,
                   s3_puts, s3_objects>>
    /\ UNCHANGED <<nvars, hvars, evars, tvars, ixvars, dyvars, mkvars>>

NextSendVideo == SvValidate \/ SvGetToken \/ SvProcessVideo \/ SvProcessTranscript \/ SvReturn

SpecSendVideo == InitSendVideo /\ [][NextSendVideo]_vars

\* The event's path parameters are missing, or lack a non-empty videoId or a
\* non-empty transcriptId.
MissingParams ==
    \/ sv_event.pathParameters # "object"
    \/ Falsy(sv_event.videoId)
    \/ Falsy(sv_event.transcriptId)

\* C21: for every event whose path parameters are missing or lack a non-empty
\* videoId or transcriptId the handler returns 400 with the error "Missing
\* videoId or transcriptId.", and it has requested no token, downloaded
\* nothing and written nothing to S3.
C21_MissingParamsRejected ==
    (MissingParams /\ sv_pc # "start") =>
        /\ sv_pc = "returned"
        /\ sv_response.statusCode = 400
        /\ sv_response.body.error = "Missing videoId or transcriptId."
        /\ http_calls = <<>>
        /\ s3_puts = <<>>
        /\ s3_objects = {}

\* The token endpoint has been asked and gave no token.
TokenRefused == http_calls # <<>> /\ http_calls[1][3] # "token"

\* C22: when the access token cannot be obtained the handler returns 500
\* with the error "Failed to obtain access token" and has fetched no file and
\* written nothing to S3; every file request and every write comes after a
\* token request that gave a token.
C22_TokenFailureStops ==
    /\ TokenRefused =>
          /\ sv_pc = "returned"
          /\ sv_response.statusCode = 500
          /\ sv_response.body.error = "Failed to obtain access token"
          /\ Len(http_calls) = 1
          /\ s3_puts = <<>>
          /\ s3_objects = {}
    /\ \A k \in 1..Len(http_calls) :
          http_calls[k][1] # "POST token" =>
              k > 1 /\ http_calls[1] = <<"POST token", "", "token">>
    /\ s3_puts # <<>> => (http_calls # <<>> /\ http_calls[1] = <<"POST token", "", "token">>)

\* The token request failed and the handler has returned.
C22_Witness ==
    /\ sv_pc = "returned"
    /\ http_calls = <<<<"POST token", "", "RequestException">>>>
    /\ sv_response.statusCode = 500

\* The handler has returned 200.
Returned200 == sv_pc = "returned" /\ sv_response.statusCode = 200

\* C23: the handler returns 200 exactly when both transfers succeeded; then
\* the message names both original file names, and the bucket holds the bytes
\* downloaded for the video under "videos/" + normalize(video name, with
\* extension) and the bytes downloaded for the transcript under
\* "transcripts/" + normalize(transcript name, with extension); the video
\* "sample-video.mp4" is stored under "videos/sample-video.mp4".
C23_TransferStoresBoth ==
    /\ sv_pc = "returned" => (sv_response.statusCode = 200 <=> Len(s3_puts) = 2)
    /\ Returned200 =>
          /\ Len(http_calls) = 5
          /\ http_calls[1] = <<"POST token", "", "token">>
          /\ http_calls[2][1] = "GET details" /\ http_calls[2][2] = sv_event.videoId
          /\ http_calls[3][1] = "GET download" /\ http_calls[3][2] = sv_event.videoId
          /\ http_calls[4][1] = "GET details" /\ http_calls[4][2] = sv_event.transcriptId
          /\ http_calls[5][1] = "GET download" /\ http_calls[5][2] = sv_event.transcriptId
          /\ LET vname == http_calls[2][3].name
                 tname == http_calls[4][3].name
                 vkey == S3_FOLDER_PREFIX_VIDEOS \o <<"/">> \o normalize_filename(vname, TRUE, TRUE)
                 tkey == S3_FOLDER_PREFIX_JSON \o <<"/">> \o normalize_filename(tname, TRUE, TRUE)
             IN  /\ sv_response.body.message =
                        <<"Successfully processed '", vname, "' and '", tname, "'">>
                 /\ s3_puts = <<<<vkey, http_calls[3][3]>>, <<tkey, http_calls[5][3]>>>>
                 /\ s3_objects = {<<vkey, http_calls[3][3]>>, <<tkey, http_calls[5][3]>>}
                 /\ vname = SampleVideoMp4 => vkey = VideosSampleVideoMp4

\* The transfer of "sample-video.mp4" and "sample-transcript.vtt" returned 200.
C23_Witness ==
    /\ Returned200
    /\ video_name = SampleVideoMp4
    /\ transcript_name = SampleTranscriptVtt
    /\ <<VideosSampleVideoMp4, "fake-video-content">> \in s3_objects

\* C25: whenever the handler returns a status other than 200, the invocation
\* has written no object to S3.
C25_AllOrNothing ==
    (sv_pc = "returned" /\ sv_response.statusCode # 200) =>
        /\ s3_puts = <<>>
        /\ s3_objects = {}

\* ------------------------------------------------------------------------
\* transcriptToJSON: get_config and handler
\* ------------------------------------------------------------------------

\* The percent escapes of the keys: "%2E" is ".", "%2F" is "/", "%20" is " ".
Unescaped(h1, h2) ==
    IF <<h1, h2>> = <<"2", "E">> THEN <<".">>
    ELSE IF <<h1, h2>> = <<"2", "F">> THEN <<"/">>
    ELSE IF <<h1, h2>> = <<"2", "0">> THEN <<" ">>
    ELSE <<"%", h1, h2>>

\* urllib.parse.unquote_plus(s): "+" becomes a space, then the escapes are
\* decoded; a "%" that starts no escape stays.
RECURSIVE unquote_plus(_)
unquote_plus(s) ==
    IF s = <<>> THEN <<>>
    ELSE IF s[1] = "+" THEN <<" ">> \o unquote_plus(Tail(s))
    ELSE IF s[1] = "%" /\ Len(s) >= 3
         THEN Unescaped(s[2], s[3]) \o unquote_plus(SubSeq(s, 4, Len(s)))
    ELSE <<s[1]>> \o unquote_plus(Tail(s))

\* s.endswith(suffix)
endswith(s, suffix) ==
    Len(s) >= Len(suffix) /\ SubSeq(s, Len(s) - Len(suffix) + 1, Len(s)) = suffix

\* s.replace(old, new): every occurrence of old, from the left, not overlapping.
RECURSIVE replace(_, _, _)
replace(s, old, new) ==
    IF Len(s) < Len(old) THEN s
    ELSE IF SubSeq(s, 1, Len(old)) = old
         THEN new \o replace(SubSeq(s, Len(old) + 1, Len(s)), old, new)
    ELSE <<s[1]>> \o replace(Tail(s), old, new)

Str_transcript_slash == <<"t", "r", "a", "n", "s", "c", "r", "i", "p", "t", "/">>
Str_json_slash == <<"j", "s", "o", "n", "/">>
Str_dot_docx == <<".", "d", "o", "c", "x">>
Str_dot_DOCX == <<".", "D", "O", "C", "X">>
Str_dot_json == <<".", "j", "s", "o", "n">>

\* key.replace("transcript/", "json/").replace(".docx", ".json")
output_key(key) ==
    replace(replace(key, Str_transcript_slash, Str_json_slash), Str_dot_docx, Str_dot_json)

\* The parts the keys of the events are made of, URL-encoded as S3 sends them.
KeyParts ==
    {Str_transcript_slash, Str_json_slash, <<"a">>, <<"+">>, <<"%", "2", "E">>,
     Str_dot_docx, Str_dot_DOCX, Str_dot_json}

EventKeys == {Concat(q) : q \in SeqsUpTo(KeyParts, MaxKeyParts)}

\* The events: one S3 record with an object key, or an event without Records.
TranscriptEvents ==
    {[malformed |-> TRUE, key |-> <<>>]} \cup [malformed : {FALSE}, key : EventKeys]

TranscriptBucket == "transcripts-bucket"

\* get_config(event): the exception it raises, "" when it returns.
get_config_raises(event) ==
    IF event.malformed THEN "KeyError"
    ELSE IF ~endswith(lower(unquote_plus(event.key)), Str_dot_docx) THEN "ValueError"
    ELSE ""

\* get_config(event): the dict it returns.
get_config(event) ==
    LET key == unquote_plus(event.key)
    IN  [is_none |-> FALSE, bucket |-> TranscriptBucket, key |-> key,
         output_key |-> output_key(key)]

\* The objects the handler reads and writes.
DocxBody == [kind |-> "docx", fields |-> {}, message |-> ""]
JsonBody == [kind |-> "json", fields |-> {}, message |-> ""]
RawResponseBody == [kind |-> "json", fields |-> {"error", "raw_response"}, message |-> ""]
ErrorBody(e) ==
    [kind |-> "json", fields |-> {"error", "message", "key", "bucket"}, message |-> e]

InitTranscript ==
    /\ NormalizerIdle
    /\ HandlerIdle
    /\ SendVideoIdle
    /\ tj_pc = "start"
    /\ tj_event \in TranscriptEvents
    /\ config = NoConfig
    /\ json_content = ""
    /\ caught = ""
    /\ tj_outcome = NoOutcome
    /\ tj_puts = <<>>
    /\ tj_objects = IF tj_event.malformed THEN {}
                    ELSE {<<unquote_plus(tj_event.key), DocxBody>>}
    /\ IndexIdle
    /\ DynaIdle
    /\ MocksIdle

\* config = get_config(event)
TjGetConfig ==
    /\ tj_pc = "start"
    /\ IF get_config_raises(tj_event) # ""
       THEN /\ caught' = get_config_raises(tj_event)
            /\ tj_pc' = "except"
            /\ UNCHANGED config
       ELSE /\ config' = get_config(tj_event)
            /\ tj_pc' = "read"
            /\ UNCHANGED caught
    /\ UNCHANGED <<tj_event, json_content, tj_outcome, tj_puts, tj_objects>>
    /\ UNCHANGED <<nvars, hvars, evars, svars, ixvars, dyvars, mkvars>>

\* file_content = get_s3_object_body(bucket, key)
TjRead ==
    /\ tj_pc = "read"
    /\ \E ok \in BOOLEAN :
          IF ok THEN tj_pc' = "extract" /\ UNCHANGED caught
          ELSE tj_pc' = "except" /\ caught' = "ClientError"
    /\ UNCHANGED <<tj_event, config, json_content, tj_outcome, tj_puts, tj_objects>>
    /\ UNCHANGED <<nvars, hvars, evars, svars, ixvars, dyvars, mkvars>>

\* transcript_text = extract_text_from_docx(file_content)
TjExtract ==
    /\ tj_pc = "extract"
    /\ \E ok \in BOOLEAN :
          IF ok THEN tj_pc' = "invoke" /\ UNCHANGED caught
          ELSE tj_pc' = "except" /\ caught' = "ValueError"
    /\ UNCHANGED <<tj_event, config, json_content, tj_outcome, tj_puts, tj_objects>>
    /\ UNCHANGED <<nvars, hvars, evars, svars, ixvars, dyvars, mkvars>>

\* What the model call does: it raises, or the generated text is JSON, or it
\* is not.
BedrockReplies == {"ClientError", "json", "not json"}

\* invoke_bedrock_model: the dict it returns for a generated text.
invoke_bedrock_model(reply) == IF reply = "json" THEN JsonBody ELSE RawResponseBody

\* json_content = invoke_bedrock_model(transcript_text, video_title, index)
TjInvoke ==
    /\ tj_pc = "invoke"
    /\ \E reply \in BedrockReplies :
          IF reply = "ClientError"
          THEN /\ tj_pc' = "except"
               /\ caught' = "ClientError"
               /\ UNCHANGED json_content
          ELSE /\ tj_pc' = "save"
               /\ json_content' = invoke_bedrock_model(reply)
               /\ UNCHANGED caught
    /\ UNCHANGED <<tj_event, config, tj_outcome, tj_puts, tj_objects>>
    /\ UNCHANGED <<nvars, hvars, evars, svars, ixvars, dyvars, mkvars>>

\* save_json_to_s3(bucket, config["output_key"], json_content); return 200
TjSave ==
    /\ tj_pc = "save"
    /\ \E put \in PutReplies :
          IF put = "ok"
          THEN /\ tj_objects' = put_object(tj_objects, config.output_key, json_content)
               /\ tj_puts' = Append(tj_puts, <<config.output_key, json_content>>)
               /\ tj_outcome' = [statusCode |-> 200, raised |-> ""]
               /\ tj_pc' = "returned"
               /\ UNCHANGED caught
          ELSE /\ tj_pc' = "except"
               /\ caught' = "ClientError"
               /\ UNCHANGED <<tj_objects, tj_puts, tj_outcome>>
    /\ UNCHANGED <<tj_event, config, json_content>>
    /\ UNCHANGED <<nvars, hvars, evars, svars, ixvars, dyvars, mkvars>>

\* except Exception as e: if config: save_json_to_s3(..., error_response);
\* raise e.  When the save of the error record raises, its exception is the
\* one that leaves the handler.
TjExcept ==
    /\ tj_pc = "except"
    /\ tj_pc' = "raised"
    /\ IF config.is_none
       THEN /\ tj_outcome' = [statusCode |-> 0, raised |-> caught]
            /\ UNCHANGED <<tj_objects, tj_puts>>
       ELSE \E put \in PutReplies :
               IF put = "ok"
               THEN /\ tj_objects' = put_object(tj_objects, config.output_key, ErrorBody(caught))
                    /\ tj_puts' = Append(tj_puts, <<config.output_key, ErrorBody(caught)>>)
                    /\ tj_outcome' = [statusCode |-> 0, raised |-> caught]
               ELSE /\ tj_outcome' = [statusCode |-> 0, raised |-> "ClientError in except"]
                    /\ UNCHANGED <<tj_objects, tj_puts>>
    /\ UNCHANGED <<tj_event, config, json_content, caught>>
    /\ UNCHANGED <<nvars, hvars, evars, svars, ixvars, dyvars, mkvars>>

NextTranscript == TjGetConfig \/ TjRead \/ TjExtract \/ TjInvoke \/ TjSave \/ TjExcept

SpecTranscript == InitTranscript /\ [][NextTranscript]_vars

\* C26: for every key get_config accepts, output_key differs from key and
\* ends with ".json", and no output is written under the key of the object
\* that triggered the handler.
C26_OutputKeyIsNotTheSource ==
    ~config.is_none =>
        /\ config.output_key # config.key
        /\ endswith(config.output_key, Str_dot_json)
        /\ \A k \in 1..Len(tj_puts) : tj_puts[k][1] # config.key
        /\ <<config.key, DocxBody>> \in tj_objects

\* C27: every failure is raised again to the caller; when it happens after
\* get_config returned, the error record (error, message, key, bucket) has
\* first been written to output_key; when get_config itself fails nothing is
\* written.  A model reply that is not JSON is no failure: the record with
\* error and raw_response is saved and the handler returns 200.
C27_FailuresRecordedAndRaised ==
    /\ tj_pc = "raised" =>
          /\ caught # ""
          /\ tj_outcome = [statusCode |-> 0, raised |-> caught]
          /\ config.is_none => (tj_puts = <<>> /\ tj_objects \subseteq {<<unquote_plus(tj_event.key), DocxBody>>})
          /\ ~config.is_none =>
                /\ tj_puts = <<<<config.output_key, ErrorBody(caught)>>>>
                /\ <<config.output_key, ErrorBody(caught)>> \in tj_objects
    /\ (tj_pc = "returned" /\ json_content = RawResponseBody) =>
          /\ tj_outcome = [statusCode |-> 200, raised |-> ""]
          /\ tj_puts = <<<<config.output_key, RawResponseBody>>>>

\* ------------------------------------------------------------------------
\* The OpenSearch indexing lambda: get_config, get_s3_json, index_document,
\* handler
\* ------------------------------------------------------------------------

EnvNames == {"INDEX", "OPENSEARCH_URI", "OPENSEARCH_USERNAME", "OPENSEARCH_PASSWORD"}

\* OPENSEARCH_URI where it is set: with its scheme, or without.
OpenSearchUris == {"https://opensearch:9200", "opensearch:9200"}

\* The environments: any of the four variables unset.
IndexEnvs ==
    {e \in [unset : SUBSET EnvNames, uri : OpenSearchUris \cup {""}] :
        e.uri = "" <=> "OPENSEARCH_URI" \in e.unset}

\* "json/intro.JSON" and "json/intro.txt"
IntroJsonCapsKey == Str_json_slash \o Str_intro \o <<".", "J", "S", "O", "N">>
IntroTxtKey == Str_json_slash \o Str_intro \o <<".", "t", "x", "t">>

\* The object keys of the events: none, the three keys above and "json/intro.json".
IndexKeys == {<<>>, IntroJsonKey, IntroJsonCapsKey, IntroTxtKey}

\* The events: one S3 record, or an event without Records.
IndexEvents ==
    {[malformed |-> TRUE, bucket |-> "", key |-> <<>>]}
    \cup [malformed : {FALSE}, bucket : {"", "json-bucket"}, key : IndexKeys]

\* isinstance(e, (ValueError, json.JSONDecodeError)): json.JSONDecodeError and
\* UnicodeDecodeError are ValueErrors, and so are the RequestExceptions
\* InvalidSchema and requests.exceptions.JSONDecodeError.
IsValueError(class) ==
    class \in {"ValueError", "JSONDecodeError", "UnicodeDecodeError", "InvalidSchema",
               "requests.JSONDecodeError"}

\* status_code = 400 if isinstance(e, (ValueError, json.JSONDecodeError)) else 500
status_code(exception) == IF IsValueError(exception.class) THEN 400 ELSE 500

\* get_config(event): the exception it raises, "" when it returns the config.
ix_get_config_raises(event, env) ==
    IF event.malformed THEN "KeyError"
    ELSE IF env.unset # {} \/ event.bucket = "" \/ event.key = <<>> THEN "ValueError"
    ELSE IF ~endswith(lower(event.key), Str_dot_json) THEN "ValueError"
    ELSE ""

\* What get_object and json.loads do: the exception raised, or "json".
S3JsonReplies == {"ClientError", "BotoCoreError", "JSONDecodeError", "UnicodeDecodeError", "json"}

\* What the PUT to OpenSearch does where the URI has a scheme.
OpenSearchReplies == {"ConnectionError", "HTTPError", "requests.JSONDecodeError", "indexed"}

\* doc_id = config["key"].replace("/", "_").replace(".json", "")
doc_id(key) == replace(replace(key, <<"/">>, <<"_">>), Str_dot_json, <<>>)

InitIndex ==
    /\ NormalizerIdle
    /\ HandlerIdle
    /\ SendVideoIdle
    /\ TranscriptIdle
    /\ ix_pc = "get_config"
    /\ ix_event \in IndexEvents
    /\ ix_env \in IndexEnvs
    /\ ix_exception = NoException
    /\ ix_response = [statusCode |-> 0, document_id |-> <<>>]
    /\ ix_requests = <<>>
    /\ DynaIdle
    /\ MocksIdle

\* config = get_config(event)
IxGetConfig ==
    /\ ix_pc = "get_config"
    /\ IF ix_get_config_raises(ix_event, ix_env) # ""
       THEN /\ ix_exception' = [raised_by |-> "get_config",
                                class |-> ix_get_config_raises(ix_event, ix_env)]
            /\ ix_pc' = "except"
       ELSE /\ ix_pc' = "get_s3_json"
            /\ UNCHANGED ix_exception
    /\ UNCHANGED <<ix_event, ix_env, ix_response, ix_requests>>
    /\ UNCHANGED <<nvars, hvars, evars, svars, tvars, dyvars, mkvars>>

\* json_content = get_s3_json(config["bucket"], config["key"])
IxGetS3Json ==
    /\ ix_pc = "get_s3_json"
    /\ \E reply \in S3JsonReplies :
          IF reply = "json"
          THEN ix_pc' = "index_document" /\ UNCHANGED ix_exception
          ELSE /\ ix_pc' = "except"
               /\ ix_exception' = [raised_by |-> "get_s3_json", class |-> reply]
    /\ UNCHANGED <<ix_event, ix_env, ix_response, ix_requests>>
    /\ UNCHANGED <<nvars, hvars, evars, svars, tvars, dyvars, mkvars>>

\* opensearch_response = index_document(config, json_content); return 200.
\* requests.put raises InvalidSchema for a URI without scheme before anything
\* is sent; response.json() raises after the document has been indexed.
IxIndexDocument ==
    /\ ix_pc = "index_document"
    /\ IF ix_env.uri = "opensearch:9200"
       THEN /\ ix_pc' = "except"
            /\ ix_exception' = [raised_by |-> "index_document", class |-> "InvalidSchema"]
            /\ UNCHANGED <<ix_requests, ix_response>>
       ELSE \E reply \in OpenSearchReplies :
               /\ ix_requests' = Append(ix_requests, <<doc_id(ix_event.key), reply>>)
               /\ IF reply = "indexed"
                  THEN /\ ix_pc' = "returned"
                       /\ ix_response' = [statusCode |-> 200,
                                          document_id |-> doc_id(ix_event.key)]
                       /\ UNCHANGED ix_exception
                  ELSE /\ ix_pc' = "except"
                       /\ ix_exception' = [raised_by |-> "index_document", class |-> reply]
                       /\ UNCHANGED ix_response
    /\ UNCHANGED <<ix_event, ix_env>>
    /\ UNCHANGED <<nvars, hvars, evars, svars, tvars, dyvars, mkvars>>

\* except Exception as e: return 400 or 500
IxExcept ==
    /\ ix_pc = "except"
    /\ ix_pc' = "returned"
    /\ ix_response' = [statusCode |-> status_code(ix_exception), document_id |-> <<>>]
    /\ UNCHANGED <<ix_event, ix_env, ix_exception, ix_requests>>
    /\ UNCHANGED <<nvars, hvars, evars, svars, tvars, dyvars, mkvars>>

NextIndex == IxGetConfig \/ IxGetS3Json \/ IxIndexDocument \/ IxExcept

SpecIndex == InitIndex /\ [][NextIndex]_vars

\* C28: the handler always returns an envelope: 200 only if the document was
\* fetched, parsed and indexed; 400 when get_config raised ValueError or the
\* S3 content is not valid JSON; 500 for every other failure (malformed
\* event, S3 error, OpenSearch request error).  No document is sent to
\* OpenSearch unless get_config and the parsing succeeded.
C28_EnvelopeClassifiesFailures ==
    /\ ix_pc = "returned" =>
          /\ ix_response.statusCode \in {200, 400, 500}
          /\ ix_response.statusCode = 200 =>
                /\ ix_exception = NoException
                /\ ix_requests = <<<<doc_id(ix_event.key), "indexed">>>>
          /\ ix_response.statusCode = 400 <=>
                \/ ix_exception = [raised_by |-> "get_config", class |-> "ValueError"]
                \/ /\ ix_exception.raised_by = "get_s3_json"
                   /\ ix_exception.class \in {"JSONDecodeError", "UnicodeDecodeError"}
          /\ ix_response.statusCode = 500 <=>
                \/ ix_exception = [raised_by |-> "get_config", class |-> "KeyError"]
                \/ /\ ix_exception.raised_by = "get_s3_json"
                   /\ ix_exception.class \in {"ClientError", "BotoCoreError"}
                \/ ix_exception.raised_by = "index_document"
    /\ ix_requests # <<>> =>
          /\ ix_get_config_raises(ix_event, ix_env) = ""
          /\ ix_exception.raised_by \notin {"get_config", "get_s3_json"}

\* ------------------------------------------------------------------------
\* lambdadyna: handler
\* ------------------------------------------------------------------------

\* The values of userId and email in the body: absent or null, empty, given.
FieldValues == {NoneId, "", "given"}

\* The events: the fields directly in the event, in the JSON text of its
\* "body", a "body" that is not JSON, or a "body" that is a JSON list; with
\* the context of the runtime, or with None as context.
DynaEvents ==
    [form : {"direct", "body", "body not json", "body list"}, userId : FieldValues,
     email : FieldValues, action : {NoneId, "login"}, has_context : BOOLEAN]

\* A check that asks for the userId only.
missing_fields_user_only(uid, mail) == Falsy(uid)

\* not user_id or not email
missing_fields(uid, mail) == Falsy(uid) \/ Falsy(mail)

\* body.get("action", "unknown")
action_of(event) == IF event.action = NoneId THEN "unknown" ELSE event.action

\* item = {"UserId": ..., "Email": ..., "Action": ..., "LambdaRequestId": ...}
Item(uid, mail, act) == [UserId |-> uid, Email |-> mail, Action |-> act]

InitDyna ==
    /\ NormalizerIdle
    /\ HandlerIdle
    /\ SendVideoIdle
    /\ TranscriptIdle
    /\ IndexIdle
    /\ dy_pc = "parse"
    /\ dy_event \in DynaEvents
    /\ user_id = NoneId
    /\ email = NoneId
    /\ action = NoneId
    /\ aws_calls = <<>>
    /\ dy_response = [statusCode |-> 0, error |-> ""]
    /\ MocksIdle

\* Lines 33-55: parse the body, read the fields, 400 when one is missing,
\* build the item.  json.loads raises for a body that is not JSON, .get for
\* a body that is a list, context.aws_request_id for a context that is None:
\* each is answered with 500 by the except clauses.
DyValidate ==
    /\ dy_pc = "parse"
    /\ IF dy_event.form \in {"body not json", "body list"}
       THEN /\ dy_pc' = "returned"
            /\ dy_response' = [statusCode |-> 500,
                               error |-> IF dy_event.form = "body list"
                                         THEN "AttributeError" ELSE "JSONDecodeError"]
            /\ UNCHANGED <<user_id, email, action>>
       ELSE /\ user_id' = dy_event.userId
            /\ email' = dy_event.email
            /\ action' = action_of(dy_event)
            /\ IF missing_fields(user_id', email')
               THEN /\ dy_pc' = "returned"
                    /\ dy_response' = [statusCode |-> 400,
                                       error |-> "Faltan campos obligatorios: userId o email"]
               ELSE IF ~dy_event.has_context
               THEN /\ dy_pc' = "returned"
                    /\ dy_response' = [statusCode |-> 500, error |-> "AttributeError"]
               ELSE /\ dy_pc' = "put_item"
                    /\ UNCHANGED dy_response
    /\ UNCHANGED <<dy_event, aws_calls>>
    /\ UNCHANGED <<nvars, hvars, evars, svars, tvars, ixvars, mkvars>>

\* table.put_item(Item=item); ClientError is answered with 500.
DyPutItem ==
    /\ dy_pc = "put_item"
    /\ \E ok \in BOOLEAN :
          /\ aws_calls' = Append(aws_calls, [call |-> "put_item", ok |-> ok,
                                             item |-> Item(user_id, email, action)])
          /\ IF ok
             THEN dy_pc' = "publish" /\ UNCHANGED dy_response
             ELSE /\ dy_pc' = "returned"
                  /\ dy_response' = [statusCode |-> 500, error |-> "ClientError"]
    /\ UNCHANGED <<dy_event, user_id, email, action>>
    /\ UNCHANGED <<nvars, hvars, evars, svars, tvars, ixvars, mkvars>>

\* sns_client.publish(...); return 200; ClientError is answered with 500.
DyPublish ==
    /\ dy_pc = "publish"
    /\ dy_pc' = "returned"
    /\ \E ok \in BOOLEAN :
          /\ aws_calls' = Append(aws_calls, [call |-> "publish", ok |-> ok,
                                             item |-> Item(user_id, email, action)])
          /\ dy_response' = IF ok THEN [statusCode |-> 200, error |-> ""]
                            ELSE [statusCode |-> 500, error |-> "ClientError"]
    /\ UNCHANGED <<dy_event, user_id, email, action>>
    /\ UNCHANGED <<nvars, hvars, evars, svars, tvars, ixvars, mkvars>>

NextDyna == DyValidate \/ DyPutItem \/ DyPublish

SpecDyna == InitDyna /\ [][NextDyna]_vars

\* The items stored and the notifications published so far.
Stored_items == SelectSeq(aws_calls, LAMBDA c : c.call = "put_item" /\ c.ok)
Published == SelectSeq(aws_calls, LAMBDA c : c.call = "publish" /\ c.ok)

\* The event's fields can be read and one of userId and email is missing or
\* empty.
FieldMissing ==
    /\ dy_event.form \in {"direct", "body"}
    /\ (dy_event.userId \in {NoneId, ""} \/ dy_event.email \in {NoneId, ""})

\* C29: a 400 response is given exactly for a missing or empty userId or
\* email and then nothing was stored or published; a 200 response means the
\* item was stored and then the notification was published; a failed write
\* gives 500 and no notification; no publish ever precedes the write.
C29_ValidateThenWriteThenPublish ==
    /\ dy_pc = "returned" =>
          /\ dy_response.statusCode = 400 <=> FieldMissing
          /\ dy_response.statusCode = 400 => aws_calls = <<>>
          /\ dy_response.statusCode = 200 =>
                /\ Len(aws_calls) = 2
                /\ aws_calls[1] = [call |-> "put_item", ok |-> TRUE,
                                   item |-> Item(dy_event.userId, dy_event.email,
                                                 action_of(dy_event))]
                /\ aws_calls[2].call = "publish" /\ aws_calls[2].ok
          /\ (aws_calls # <<>> /\ ~aws_calls[1].ok) =>
                /\ dy_response.statusCode = 500
                /\ Len(aws_calls) = 1
    /\ FieldMissing => aws_calls = <<>>
    /\ \A k \in 1..Len(aws_calls) :
          aws_calls[k].call = "publish" =>
              k = 2 /\ aws_calls[1].call = "put_item" /\ aws_calls[1].ok

\* A 200 has been returned after one write and one publish.
C29_Witness ==
    /\ dy_pc = "returned" /\ dy_response.statusCode = 200
    /\ Len(Stored_items) = 1 /\ Len(Published) = 1

\* ------------------------------------------------------------------------
\* The test runner: test_lambda_with_local_mocks, apply_mocks_for_lambda,
\* MockInjector
\* ------------------------------------------------------------------------

\* The mock_config.json of a lambda.
MockConfigs ==
    {MocksDisabled} \cup
    [enabled : {TRUE}, mock_external_apis : BOOLEAN, external_api_responses : BOOLEAN]

RequestsMethods == <<"get", "post", "put", "patch", "delete", "head", "options">>

\* patch_boto3(): one patcher, of boto3.client, appended and started.
patch_boto3(n) == <<<<n, "boto3.client">>>>

\* patch_requests(external_api_config): nothing for an empty configuration,
\* else one patcher for each HTTP method, appended and started.
patch_requests(n, external_api_config) ==
    IF ~external_api_config THEN <<>>
    ELSE [k \in 1..Len(RequestsMethods) |-> <<n, RequestsMethods[k]>>]

\* apply_mocks_for_lambda(lambda_path): the active_patches of the injector it
\* returns, <<>> also when it returns None.
apply_mocks_for_lambda(n, lambda_config) ==
    IF ~lambda_config.enabled THEN <<>>
    ELSE patch_boto3(n) \o
         (IF lambda_config.mock_external_apis
          THEN patch_requests(n, lambda_config.external_api_responses)
          ELSE <<>>)

\* What exec_module does: it returns or raises.
ImportReplies == {"ok", "ModuleNotFoundError", "ImportError", "Exception"}

\* What the handler does with {'test': True}: an envelope, something else,
\* or an exception.
HandlerReplies == {"envelope", "invalid", "Exception"}

InitMocks ==
    /\ NormalizerIdle
    /\ HandlerIdle
    /\ SendVideoIdle
    /\ TranscriptIdle
    /\ IndexIdle
    /\ DynaIdle
    /\ mk_pc = "ready"
    /\ mk_lambda = 0
    /\ mk_config = MocksDisabled
    /\ active_patches = <<>>
    /\ patched = {}
    /\ mk_result = ""

\* test_lambda_with_local_mocks is called for the next lambda:
\* injector = apply_mocks_for_lambda(lambda_path); return result when it is None
MkApplyMocks ==
    /\ mk_pc \in {"ready", "returned"}
    /\ mk_lambda < MaxLambdas
    /\ mk_lambda' = mk_lambda + 1
    /\ \E lambda_config \in MockConfigs :
          /\ mk_config' = lambda_config
          /\ active_patches' = apply_mocks_for_lambda(mk_lambda', lambda_config)
          /\ patched' = patched \cup Range(active_patches')
          /\ mk_pc' = IF lambda_config.enabled THEN "import" ELSE "returned"
    /\ mk_result' = ""
    /\ UNCHANGED <<nvars, hvars, evars, svars, tvars, ixvars, dyvars>>

\* spec.loader.exec_module(handler_module); the except clauses add an entry
\* to the result and the function returns.
MkImport ==
    /\ mk_pc = "import"
    /\ \E reply \in ImportReplies :
          IF reply = "ok"
          THEN mk_pc' = "invoke" /\ UNCHANGED mk_result
          ELSE /\ mk_pc' = "returned"
               /\ mk_result' = IF reply = "Exception" THEN "failed" ELSE "skipped"
    /\ UNCHANGED <<mk_lambda, mk_config, active_patches, patched>>
    /\ UNCHANGED <<nvars, hvars, evars, svars, tvars, ixvars, dyvars>>

\* response = handler_module.handler({'test': True}, {}); the checks of the
\* response; except Exception adds a failure and the function returns.
MkInvoke ==
    /\ mk_pc = "invoke"
    /\ \E reply \in HandlerReplies :
          IF reply = "Exception"
          THEN mk_pc' = "returned" /\ mk_result' = "failed"
          ELSE /\ mk_pc' = "cleanup"
               /\ mk_result' = IF reply = "envelope" THEN "passed" ELSE "failed"
    /\ UNCHANGED <<mk_lambda, mk_config, active_patches, patched>>
    /\ UNCHANGED <<nvars, hvars, evars, svars, tvars, ixvars, dyvars>>

\* injector.cleanup(): every patcher of active_patches is stopped; return result
MkCleanup ==
    /\ mk_pc = "cleanup"
    /\ patched' = patched \ Range(active_patches)
    /\ active_patches' = <<>>
    /\ mk_pc' = "returned"
    /\ UNCHANGED <<mk_lambda, mk_config, mk_result>>
    /\ UNCHANGED <<nvars, hvars, evars, svars, tvars, ixvars, dyvars>>

NextMocks == MkApplyMocks \/ MkImport \/ MkInvoke \/ MkCleanup

SpecMocks == InitMocks /\ [][NextMocks]_vars

\* C30: whenever test_lambda_with_local_mocks has returned, on every path, no
\* patcher started by a MockInjector is still active: boto3.client and the
\* requests methods are the originals when the next lambda is tested.
C30_NoPatchLeftActive ==
    mk_pc = "returned" => patched = {}

====
